---- MODULE Spec2Model ----
(***************************************************************************)
(* Quick-Desk: the ticket, category and user stores and the route handlers *)
(* that read and write them (routes/tickets.js, routes/categories.js,      *)
(* routes/users.js, middleware/auth.js, models/Ticket.js).                 *)
(*                                                                         *)
(* Every handler is one action: the request runs from authentication to    *)
(* its response in one step.  `last` holds the last request and response.  *)
(* For the handlers that other requests can overtake between an await and  *)
(* the write that follows it, there are two actions, the reads and the     *)
(* write, with the request held in `pending` in between.                   *)
(***************************************************************************)
EXTENDS Integers, Sequences, FiniteSets, TLC

VARIABLES
    users,       \* the user store: id -> [role, isActive, email]
    categories,  \* the category store: id -> [name, isActive]
    tickets,     \* the ticket store: id -> ticket document
    allocated,   \* the ObjectIds the store has handed out (never reused)
    clock,       \* the value the next new Date() returns
    last,        \* the last request and its response
    voteHist,    \* per ticket, the last two successful votes (history)
    pending      \* per request slot, a handler between its reads and its write

vars == <<users, categories, tickets, allocated, clock, last, voteHist, pending>>

-----------------------------------------------------------------------------
(* Identifiers and input values *)

\* The accounts of setup.js (admin, agent, user) and one more registered user.
UserIds == {"admin", "agent", "user", "user2"}

CategoryIds == {"c1", "c2"}

TicketIds == {"t1", "t2"}

\* A request field that the body or the query does not carry.
Absent == "absent"

\* A reference or a date that a document does not hold.
None == "none"

\* The requests that can be in flight at once: a handler that has awaited
\* its reads holds a slot until its write.
Slots == {"r1", "r2"}

\* A slot with no request in flight.
Idle == [kind |-> "idle"]

\* An unset Date field (resolvedAt, closedAt); set dates are clock values >= 1.
Unset == 0

\* The largest value the clock may take.
MaxClock == 4

\* The most comments a ticket of the model holds.
MaxComments == 2

Statuses == {"open", "in-progress", "resolved", "closed"}

Priorities == {"low", "medium", "high", "urgent"}

Roles == {"user", "agent", "admin"}

\* express-validator isMongoId(): the well-formed ids of the model.
IsMongoId(x) == x \in UserIds \cup CategoryIds \cup TicketIds

-----------------------------------------------------------------------------
(* Array helpers, as JavaScript computes them (0-based indices) *)

\* Array.prototype.findIndex(id => id.toString() === x): first index, or -1.
FindIndex(arr, x) ==
    IF \E i \in 1..Len(arr) : arr[i] = x
    THEN (CHOOSE i \in 1..Len(arr) : arr[i] = x /\ \A j \in 1..(i - 1) : arr[j] # x) - 1
    ELSE -1

\* Array.prototype.splice(idx, 1): the array without the element at 0-based idx.
Splice(arr, idx) ==
    [i \in 1..(Len(arr) - 1) |-> IF i <= idx THEN arr[i] ELSE arr[i + 1]]

\* Push that puts x in front (unshift).
PushFront(arr, x) == <<x>> \o arr

\* Array.prototype.push(x).
Push(arr, x) == Append(arr, x)

Elems(arr) == {arr[i] : i \in 1..Len(arr)}

-----------------------------------------------------------------------------
(* middleware/auth.js *)

\* Authenticated without the isActive test.
AuthenticatedInactiveToo(u) == u \in DOMAIN users

\* protect: the token's user exists and is active (else 401).
Authenticated(u) == u \in DOMAIN users /\ users[u].isActive

RoleOf(u) == users[u].role

\* Authorized that lets every role through.
AuthorizedAnyRole(u, roles) == TRUE

\* authorize(...roles): the requester's role is one of roles (else 403).
Authorized(u, roles) == RoleOf(u) \in roles

-----------------------------------------------------------------------------
(* Responses *)

Response(op, u, id, req, code, msg, res) ==
    [op |-> op, user |-> u, id |-> id, req |-> req, code |-> code, msg |-> msg, res |-> res]

\* A handler that returns before any write: only the response changes.
Reject(op, u, id, req, code, msg) ==
    /\ last' = Response(op, u, id, req, code, msg, None)
    /\ UNCHANGED <<pending, users, categories, tickets, allocated, clock, voteHist>>

-----------------------------------------------------------------------------
(* models/Ticket.js *)

\* The voteCount virtual.
VoteCount(t) == Len(t.upvotes) - Len(t.downvotes)

\* Ticket.create of POST /api/tickets with the schema's defaults.
NewTicket(u, subject, description, category, priority) ==
    [ subject     |-> subject,
      description |-> description,
      category    |-> category,
      status      |-> "open",
      priority    |-> IF priority = Absent THEN "medium" ELSE priority,
      createdBy   |-> u,
      assignedTo  |-> None,
      comments    |-> <<>>,
      upvotes     |-> <<>>,
      downvotes   |-> <<>>,
      resolvedAt  |-> Unset,
      closedAt    |-> Unset ]

\* PreSave without the !this.resolvedAt / !this.closedAt tests: every entry
\* into resolved or closed stamps again.
PreSaveOverwrite(loaded, doc, now) ==
    IF doc.status # loaded.status
    THEN IF doc.status = "resolved"
         THEN [doc EXCEPT !.resolvedAt = now]
         ELSE IF doc.status = "closed"
         THEN [doc EXCEPT !.closedAt = now]
         ELSE doc
    ELSE doc

\* PreSave that stamps closedAt only on a ticket that was resolved before.
PreSaveClosedAfterResolved(loaded, doc, now) ==
    IF doc.status # loaded.status
    THEN IF doc.status = "resolved" /\ doc.resolvedAt = Unset
         THEN [doc EXCEPT !.resolvedAt = now]
         ELSE IF doc.status = "closed" /\ doc.closedAt = Unset /\ doc.resolvedAt # Unset
         THEN [doc EXCEPT !.closedAt = now]
         ELSE doc
    ELSE doc

\* PreSave that stamps resolvedAt and never closedAt.
PreSaveResolvedOnly(loaded, doc, now) ==
    IF doc.status # loaded.status /\ doc.status = "resolved" /\ doc.resolvedAt = Unset
    THEN [doc EXCEPT !.resolvedAt = now]
    ELSE doc

\* The pre('save') hook: doc is the loaded document with the handler's
\* assignments, now the value of new Date().  isModified('status') is a
\* status that differs from the loaded one.
PreSave(loaded, doc, now) ==
    IF doc.status # loaded.status
    THEN IF doc.status = "resolved" /\ doc.resolvedAt = Unset
         THEN [doc EXCEPT !.resolvedAt = now]
         ELSE IF doc.status = "closed" /\ doc.closedAt = Unset
         THEN [doc EXCEPT !.closedAt = now]
         ELSE doc
    ELSE doc

\* Whether the hook read the clock.
Stamped(loaded, saved) ==
    saved.resolvedAt # loaded.resolvedAt \/ saved.closedAt # loaded.closedAt

\* The array paths of a ticket document.
ArrayPaths == {"comments", "upvotes", "downvotes"}

\* The in-memory array is the loaded one with elements pushed at the end.
PurePush(loaded, doc) ==
    Len(doc) > Len(loaded) /\ SubSeq(doc, 1, Len(loaded)) = loaded

\* save() sends an array that was only pushed to as $push of the new
\* elements, and an array changed in another way (splice) as $set of the
\* whole in-memory array.
MergeArray(stored, loaded, doc) ==
    IF doc = loaded THEN stored
    ELSE IF PurePush(loaded, doc)
    THEN stored \o SubSeq(doc, Len(loaded) + 1, Len(doc))
    ELSE doc

\* save() of a document loaded as `loaded` and modified to `doc`, on the
\* stored document: only the modified paths are written.
SaveDelta(stored, loaded, doc) ==
    [f \in DOMAIN stored |->
        IF f \in ArrayPaths
        THEN MergeArray(stored[f], loaded[f], doc[f])
        ELSE IF doc[f] # loaded[f] THEN doc[f] ELSE stored[f]]

\* The save changes an array path: it increments the document's version.
BumpsVersion(loaded, doc) == \E f \in ArrayPaths : doc[f] # loaded[f]

\* The save sets a whole array: it matches on the loaded version and fails
\* (VersionError) when another save has incremented the version since.
NeedsVersionMatch(loaded, doc) ==
    \E f \in ArrayPaths : doc[f] # loaded[f] /\ ~PurePush(loaded[f], doc[f])

\* The slots after the request of slot s has saved ticket id: s is free, and
\* the other requests that hold ticket id loaded hold a stale version when
\* the save incremented it.
AfterTicketSave(s, id, bumps) ==
    [x \in Slots |->
        IF x = s THEN Idle
        ELSE IF /\ bumps
                /\ pending[x].kind \in {"vote", "updateTicket"}
                /\ pending[x].id = id
        THEN [pending[x] EXCEPT !.stale = TRUE]
        ELSE pending[x]]

\* The response of a request that leaves its slot without writing.
Fail(s, op, u, id, req, code, msg) ==
    /\ last' = Response(op, u, id, req, code, msg, None)
    /\ pending' = [pending EXCEPT ![s] = Idle]
    /\ UNCHANGED <<users, categories, tickets, allocated, clock, voteHist>>

-----------------------------------------------------------------------------
(* routes/tickets.js *)

ValidSubject(s) == Len(s) >= 5 /\ Len(s) <= 200

ValidDescription(s) == Len(s) >= 10

\* POST /api/tickets.  id is the ObjectId the store gives the new document.
CreateTicket(u, id, b) ==
    /\ id \notin allocated
    /\ IF ~Authenticated(u)
       THEN Reject("createTicket", u, id, b, 401, "Not authorized to access this route")
       ELSE IF \/ ~ValidSubject(b.subject)
               \/ ~ValidDescription(b.description)
               \/ ~IsMongoId(b.category)
               \/ (b.priority # Absent /\ b.priority \notin Priorities)
       THEN Reject("createTicket", u, id, b, 400, "validation")
       ELSE IF b.category \notin DOMAIN categories \/ ~categories[b.category].isActive
       THEN Reject("createTicket", u, id, b, 400, "Invalid category")
       ELSE /\ tickets' = tickets @@
                  (id :> NewTicket(u, b.subject, b.description, b.category, b.priority))
            /\ allocated' = allocated \cup {id}
            /\ voteHist' = voteHist @@ (id :> <<>>)
            /\ last' = Response("createTicket", u, id, b, 201, "ok", None)
            /\ UNCHANGED <<pending, users, categories, clock>>

\* POST /api/tickets up to the await of Ticket.create: validation and the
\* category lookup of lines 135-138.  The new document's id is reserved.
CreateTicketCheck(s, u, id, b) ==
    /\ pending[s] = Idle
    /\ id \notin allocated
    /\ IF ~Authenticated(u)
       THEN Reject("createTicket", u, id, b, 401, "Not authorized to access this route")
       ELSE IF \/ ~ValidSubject(b.subject)
               \/ ~ValidDescription(b.description)
               \/ ~IsMongoId(b.category)
               \/ (b.priority # Absent /\ b.priority \notin Priorities)
       THEN Reject("createTicket", u, id, b, 400, "validation")
       ELSE IF b.category \notin DOMAIN categories \/ ~categories[b.category].isActive
       THEN Reject("createTicket", u, id, b, 400, "Invalid category")
       ELSE /\ pending' = [pending EXCEPT ![s] =
                  [kind |-> "createTicket", user |-> u, id |-> id, req |-> b]]
            /\ allocated' = allocated \cup {id}
            /\ UNCHANGED <<users, categories, tickets, clock, last, voteHist>>

\* Ticket.create of a create ticket in flight, and the response.
CreateTicketWrite(s) ==
    /\ pending[s].kind = "createTicket"
    /\ LET r == pending[s]
       IN  /\ tickets' = tickets @@
                 (r.id :> NewTicket(r.user, r.req.subject, r.req.description,
                                    r.req.category, r.req.priority))
           /\ voteHist' = voteHist @@ (r.id :> <<>>)
           /\ last' = Response("createTicket", r.user, r.id, r.req, 201, "ok", None)
    /\ pending' = [pending EXCEPT ![s] = Idle]
    /\ UNCHANGED <<users, categories, allocated, clock>>

\* ApplyVote without the removal from the opposite array.
ApplyVoteKeepOpposite(t, u, voteType) ==
    LET upvoteIndex   == FindIndex(t.upvotes, u)
        downvoteIndex == FindIndex(t.downvotes, u)
    IN  IF voteType = "upvote"
        THEN IF upvoteIndex > -1
             THEN [t EXCEPT !.upvotes = Splice(t.upvotes, upvoteIndex)]
             ELSE [t EXCEPT !.upvotes = Push(t.upvotes, u)]
        ELSE IF downvoteIndex > -1
             THEN [t EXCEPT !.downvotes = Splice(t.downvotes, downvoteIndex)]
             ELSE [t EXCEPT !.downvotes = Push(t.downvotes, u)]

\* ApplyVote that keeps a vote already held in the requested direction
\* instead of removing it.
ApplyVoteNoToggle(t, u, voteType) ==
    LET upvoteIndex   == FindIndex(t.upvotes, u)
        downvoteIndex == FindIndex(t.downvotes, u)
    IN  IF voteType = "upvote"
        THEN IF upvoteIndex > -1
             THEN t
             ELSE [t EXCEPT !.upvotes = Push(t.upvotes, u),
                            !.downvotes = IF downvoteIndex > -1
                                          THEN Splice(t.downvotes, downvoteIndex)
                                          ELSE t.downvotes]
        ELSE IF downvoteIndex > -1
             THEN t
             ELSE [t EXCEPT !.downvotes = Push(t.downvotes, u),
                            !.upvotes = IF upvoteIndex > -1
                                        THEN Splice(t.upvotes, upvoteIndex)
                                        ELSE t.upvotes]

\* ApplyVote that, for a user holding the opposite vote, removes that vote
\* and adds none.
ApplyVoteSwitchDrops(t, u, voteType) ==
    LET upvoteIndex   == FindIndex(t.upvotes, u)
        downvoteIndex == FindIndex(t.downvotes, u)
    IN  IF voteType = "upvote"
        THEN IF upvoteIndex > -1
             THEN [t EXCEPT !.upvotes = Splice(t.upvotes, upvoteIndex)]
             ELSE IF downvoteIndex > -1
             THEN [t EXCEPT !.downvotes = Splice(t.downvotes, downvoteIndex)]
             ELSE [t EXCEPT !.upvotes = Push(t.upvotes, u)]
        ELSE IF downvoteIndex > -1
             THEN [t EXCEPT !.downvotes = Splice(t.downvotes, downvoteIndex)]
             ELSE IF upvoteIndex > -1
             THEN [t EXCEPT !.upvotes = Splice(t.upvotes, upvoteIndex)]
             ELSE [t EXCEPT !.downvotes = Push(t.downvotes, u)]

\* The toggle of lines 383-404 on a loaded ticket; voteType is upvote or downvote.
ApplyVote(t, u, voteType) ==
    LET upvoteIndex   == FindIndex(t.upvotes, u)
        downvoteIndex == FindIndex(t.downvotes, u)
    IN  IF voteType = "upvote"
        THEN IF upvoteIndex > -1
             THEN [t EXCEPT !.upvotes = Splice(t.upvotes, upvoteIndex)]
             ELSE [t EXCEPT !.upvotes = Push(t.upvotes, u),
                            !.downvotes = IF downvoteIndex > -1
                                          THEN Splice(t.downvotes, downvoteIndex)
                                          ELSE t.downvotes]
        ELSE IF downvoteIndex > -1
             THEN [t EXCEPT !.downvotes = Splice(t.downvotes, downvoteIndex)]
             ELSE [t EXCEPT !.downvotes = Push(t.downvotes, u),
                            !.upvotes = IF upvoteIndex > -1
                                        THEN Splice(t.upvotes, upvoteIndex)
                                        ELSE t.upvotes]

\* The last two successful votes on a ticket, each with the voter sets before it.
Remember(h, u, voteType, t) ==
    LET e == [user |-> u, voteType |-> voteType,
              up |-> Elems(t.upvotes), down |-> Elems(t.downvotes)]
    IN  IF Len(h) < 2 THEN Append(h, e) ELSE <<h[2], e>>

\* Vote behind the canAccessTicket check.
VoteNeedsAccess(u, id, voteType) ==
    IF ~Authenticated(u)
    THEN Reject("vote", u, id, voteType, 401, "Not authorized to access this route")
    ELSE IF id \notin DOMAIN tickets
    THEN Reject("vote", u, id, voteType, 404, "Ticket not found")
    ELSE IF ~(tickets[id].createdBy = u \/ tickets[id].assignedTo = u
              \/ RoleOf(u) \in {"admin", "agent"})
    THEN Reject("vote", u, id, voteType, 403, "Not authorized to access this ticket")
    ELSE IF voteType \notin {"upvote", "downvote"}
    THEN Reject("vote", u, id, voteType, 400, "Invalid vote type")
    ELSE LET saved == PreSave(tickets[id], ApplyVote(tickets[id], u, voteType), clock)
         IN  /\ tickets' = [tickets EXCEPT ![id] = saved]
             /\ voteHist' = [voteHist EXCEPT ![id] = Remember(@, u, voteType, tickets[id])]
             /\ last' = Response("vote", u, id, voteType, 200, "ok",
                                 [upvotes |-> Len(saved.upvotes),
                                  downvotes |-> Len(saved.downvotes),
                                  voteCount |-> VoteCount(saved)])
             /\ UNCHANGED <<pending, users, categories, allocated, clock>>

\* POST /api/tickets/:id/vote.
Vote(u, id, voteType) ==
    IF ~Authenticated(u)
    THEN Reject("vote", u, id, voteType, 401, "Not authorized to access this route")
    ELSE IF id \notin DOMAIN tickets
    THEN Reject("vote", u, id, voteType, 404, "Ticket not found")
    ELSE IF voteType \notin {"upvote", "downvote"}
    THEN Reject("vote", u, id, voteType, 400, "Invalid vote type")
    ELSE LET saved == PreSave(tickets[id], ApplyVote(tickets[id], u, voteType), clock)
         IN  /\ tickets' = [tickets EXCEPT ![id] = saved]
             /\ voteHist' = [voteHist EXCEPT ![id] = Remember(@, u, voteType, tickets[id])]
             /\ last' = Response("vote", u, id, voteType, 200, "ok",
                                 [upvotes |-> Len(saved.upvotes),
                                  downvotes |-> Len(saved.downvotes),
                                  voteCount |-> VoteCount(saved)])
             /\ UNCHANGED <<pending, users, categories, allocated, clock>>

\* POST /api/tickets/:id/vote up to the await of ticket.save(): the ticket
\* is loaded and the toggle applied to the loaded document.
VoteLoad(s, u, id, voteType) ==
    /\ pending[s] = Idle
    /\ IF ~Authenticated(u)
       THEN Reject("vote", u, id, voteType, 401, "Not authorized to access this route")
       ELSE IF id \notin DOMAIN tickets
       THEN Reject("vote", u, id, voteType, 404, "Ticket not found")
       ELSE IF voteType \notin {"upvote", "downvote"}
       THEN Reject("vote", u, id, voteType, 400, "Invalid vote type")
       ELSE /\ pending' = [pending EXCEPT ![s] =
                  [kind |-> "vote", user |-> u, id |-> id, req |-> voteType,
                   loaded |-> tickets[id],
                   doc |-> ApplyVote(tickets[id], u, voteType),
                   stale |-> FALSE]]
            /\ UNCHANGED <<users, categories, tickets, allocated, clock, last, voteHist>>

\* The save of a vote in flight, and the response.  voteHist records votes
\* saved in one step with their load and is left alone here.
VoteSave(s) ==
    /\ pending[s].kind = "vote"
    /\ LET r == pending[s]
       IN  IF r.id \notin DOMAIN tickets
           THEN Fail(s, "vote", r.user, r.id, r.req, 500, "Server error")
           ELSE LET doc == PreSave(r.loaded, r.doc, clock)
                IN  IF NeedsVersionMatch(r.loaded, doc) /\ r.stale
                    THEN Fail(s, "vote", r.user, r.id, r.req, 500, "Server error")
                    ELSE /\ tickets' = [tickets EXCEPT
                                ![r.id] = SaveDelta(tickets[r.id], r.loaded, doc)]
                         /\ pending' = AfterTicketSave(s, r.id, BumpsVersion(r.loaded, doc))
                         /\ last' = Response("vote", r.user, r.id, r.req, 200, "ok",
                                             [upvotes |-> Len(doc.upvotes),
                                              downvotes |-> Len(doc.downvotes),
                                              voteCount |-> VoteCount(doc)])
                         /\ UNCHANGED <<users, categories, allocated, clock, voteHist>>

\* Line 67: populate('createdBy') leaves null when the user is gone, and
\* reading its _id throws (500).
CreatorPopulated(t) == t.createdBy \in DOMAIN users

\* CanAccessTicket without the assignee.
CanAccessTicketNoAssignee(u, t) ==
    LET isOwner    == t.createdBy = u
        isAdmin    == RoleOf(u) = "admin"
        isAgent    == RoleOf(u) = "agent"
    IN  isOwner \/ isAdmin \/ isAgent

\* canAccessTicket: owner, assignee, admin or agent.
CanAccessTicket(u, t) ==
    LET isOwner    == t.createdBy = u
        isAssigned == t.assignedTo # None /\ t.assignedTo = u
        isAdmin    == RoleOf(u) = "admin"
        isAgent    == RoleOf(u) = "agent"
    IN  isOwner \/ isAssigned \/ isAdmin \/ isAgent

\* GET /api/tickets/:id.
GetTicket(u, id) ==
    IF ~Authenticated(u)
    THEN Reject("getTicket", u, id, None, 401, "Not authorized to access this route")
    ELSE IF id \notin DOMAIN tickets
    THEN Reject("getTicket", u, id, None, 404, "Ticket not found")
    ELSE IF ~CreatorPopulated(tickets[id])
    THEN Reject("getTicket", u, id, None, 500, "Server error")
    ELSE IF ~CanAccessTicket(u, tickets[id])
    THEN Reject("getTicket", u, id, None, 403, "Not authorized to access this ticket")
    ELSE /\ last' = Response("getTicket", u, id, None, 200, "ok", tickets[id])
         /\ UNCHANGED <<pending, users, categories, tickets, allocated, clock, voteHist>>

\* The validators of PUT /api/tickets/:id (category has none).
ValidUpdate(b) ==
    /\ b.subject = Absent \/ ValidSubject(b.subject)
    /\ b.description = Absent \/ ValidDescription(b.description)
    /\ b.status = Absent \/ b.status \in Statuses
    /\ b.priority = Absent \/ b.priority \in Priorities
    /\ b.assignedTo = Absent \/ IsMongoId(b.assignedTo)

\* Line 294: a requester of role user who is not the owner is turned away.
UpdateForbidden(u, t) ==
    LET isOwner == t.createdBy = u
    IN  RoleOf(u) = "user" /\ ~isOwner

\* CanWriteWorkflow that also admits the owner.
CanWriteWorkflowOwner(u, t) ==
    LET isOwner    == t.createdBy = u
        isAssigned == t.assignedTo # None /\ t.assignedTo = u
        isAdmin    == RoleOf(u) = "admin"
        isAgent    == RoleOf(u) = "agent"
    IN  isAgent \/ isAdmin \/ isAssigned \/ isOwner

\* Line 299: who may write status, priority and assignedTo.
CanWriteWorkflow(u, t) ==
    LET isAssigned == t.assignedTo # None /\ t.assignedTo = u
        isAdmin    == RoleOf(u) = "admin"
        isAgent    == RoleOf(u) = "agent"
    IN  isAgent \/ isAdmin \/ isAssigned

\* ApplyUpdate that also makes the requester the ticket's creator.
ApplyUpdateTakesOwnership(u, t, b) ==
    LET w == IF CanWriteWorkflow(u, t)
             THEN [t EXCEPT !.status     = IF b.status # Absent THEN b.status ELSE @,
                            !.priority   = IF b.priority # Absent THEN b.priority ELSE @,
                            !.assignedTo = IF b.assignedTo # Absent THEN b.assignedTo ELSE @]
             ELSE t
    IN  [w EXCEPT !.subject     = IF b.subject # Absent THEN b.subject ELSE @,
                  !.description = IF b.description # Absent THEN b.description ELSE @,
                  !.category    = IF b.category # Absent THEN b.category ELSE @,
                  !.createdBy   = u]

\* ApplyUpdate in which a body without assignedTo clears the assignee.
ApplyUpdateUnassigns(u, t, b) ==
    LET w == IF CanWriteWorkflow(u, t)
             THEN [t EXCEPT !.status     = IF b.status # Absent THEN b.status ELSE @,
                            !.priority   = IF b.priority # Absent THEN b.priority ELSE @,
                            !.assignedTo = IF b.assignedTo # Absent THEN b.assignedTo ELSE None]
             ELSE t
    IN  [w EXCEPT !.subject     = IF b.subject # Absent THEN b.subject ELSE @,
                  !.description = IF b.description # Absent THEN b.description ELSE @,
                  !.category    = IF b.category # Absent THEN b.category ELSE @]

\* Lines 299-308: the assignments of the handler on the loaded ticket.
ApplyUpdate(u, t, b) ==
    LET w == IF CanWriteWorkflow(u, t)
             THEN [t EXCEPT !.status     = IF b.status # Absent THEN b.status ELSE @,
                            !.priority   = IF b.priority # Absent THEN b.priority ELSE @,
                            !.assignedTo = IF b.assignedTo # Absent THEN b.assignedTo ELSE @]
             ELSE t
    IN  [w EXCEPT !.subject     = IF b.subject # Absent THEN b.subject ELSE @,
                  !.description = IF b.description # Absent THEN b.description ELSE @,
                  !.category    = IF b.category # Absent THEN b.category ELSE @]

\* PUT /api/tickets/:id.
UpdateTicket(u, id, b) ==
    /\ clock < MaxClock
    /\ IF ~Authenticated(u)
       THEN Reject("updateTicket", u, id, b, 401, "Not authorized to access this route")
       ELSE IF id \notin DOMAIN tickets
       THEN Reject("updateTicket", u, id, b, 404, "Ticket not found")
       ELSE IF ~CreatorPopulated(tickets[id])
       THEN Reject("updateTicket", u, id, b, 500, "Server error")
       ELSE IF ~CanAccessTicket(u, tickets[id])
       THEN Reject("updateTicket", u, id, b, 403, "Not authorized to access this ticket")
       ELSE IF ~ValidUpdate(b)
       THEN Reject("updateTicket", u, id, b, 400, "validation")
       ELSE IF UpdateForbidden(u, tickets[id])
       THEN Reject("updateTicket", u, id, b, 403, "Not authorized to update this ticket")
       ELSE IF b.category # Absent /\ ~IsMongoId(b.category)
       THEN \* the save fails to cast the category to an ObjectId
            Reject("updateTicket", u, id, b, 500, "Server error")
       ELSE LET saved == PreSave(tickets[id], ApplyUpdate(u, tickets[id], b), clock)
            IN  /\ tickets' = [tickets EXCEPT ![id] = saved]
                /\ clock' = IF Stamped(tickets[id], saved) THEN clock + 1 ELSE clock
                /\ voteHist' = [voteHist EXCEPT ![id] = <<>>]
                /\ last' = Response("updateTicket", u, id, b, 200, "ok", None)
                /\ UNCHANGED <<pending, users, categories, allocated>>

\* PUT /api/tickets/:id up to the await of ticket.save() (line 310): the
\* middleware has loaded the ticket and the handler has assigned the body's
\* fields to the loaded document.
UpdateTicketLoad(s, u, id, b) ==
    /\ pending[s] = Idle
    /\ IF ~Authenticated(u)
       THEN Reject("updateTicket", u, id, b, 401, "Not authorized to access this route")
       ELSE IF id \notin DOMAIN tickets
       THEN Reject("updateTicket", u, id, b, 404, "Ticket not found")
       ELSE IF ~CreatorPopulated(tickets[id])
       THEN Reject("updateTicket", u, id, b, 500, "Server error")
       ELSE IF ~CanAccessTicket(u, tickets[id])
       THEN Reject("updateTicket", u, id, b, 403, "Not authorized to access this ticket")
       ELSE IF ~ValidUpdate(b)
       THEN Reject("updateTicket", u, id, b, 400, "validation")
       ELSE IF UpdateForbidden(u, tickets[id])
       THEN Reject("updateTicket", u, id, b, 403, "Not authorized to update this ticket")
       ELSE /\ pending' = [pending EXCEPT ![s] =
                  [kind |-> "updateTicket", user |-> u, id |-> id, req |-> b,
                   loaded |-> tickets[id],
                   doc |-> ApplyUpdate(u, tickets[id], b),
                   stale |-> FALSE]]
            /\ UNCHANGED <<users, categories, tickets, allocated, clock, last, voteHist>>

\* The save of an update in flight, and the response: the pre('save') hook
\* runs on the request's own document, and the modified paths are written.
UpdateTicketSave(s) ==
    /\ pending[s].kind = "updateTicket"
    /\ clock < MaxClock
    /\ LET r == pending[s]
       IN  IF r.id \notin DOMAIN tickets
           THEN Fail(s, "updateTicket", r.user, r.id, r.req, 500, "Server error")
           ELSE IF r.req.category # Absent /\ ~IsMongoId(r.req.category)
           THEN Fail(s, "updateTicket", r.user, r.id, r.req, 500, "Server error")
           ELSE LET doc == PreSave(r.loaded, r.doc, clock)
                IN  /\ tickets' = [tickets EXCEPT
                           ![r.id] = SaveDelta(tickets[r.id], r.loaded, doc)]
                    /\ clock' = IF Stamped(r.loaded, doc) THEN clock + 1 ELSE clock
                    /\ pending' = AfterTicketSave(s, r.id, BumpsVersion(r.loaded, doc))
                    /\ voteHist' = [voteHist EXCEPT ![r.id] = <<>>]
                    /\ last' = Response("updateTicket", r.user, r.id, r.req, 200, "ok", None)
                    /\ UNCHANGED <<users, categories, allocated>>

\* { $regex: search, $options: 'i' } on the texts of the model: the search
\* term occurs in the text, ignoring case.
RegexTest(search, text) ==
    <<search, text>> \in {<<"PRINTER", "Printer jams">>,
                          <<"jams", "Printer jams">>,
                          <<"jams", "It jams on every page">>}

\* Lines 189-212: the query object built from the requester and req.query.
\* A field of the result is Absent when the query does not constrain it.
ListQuery(u, q) ==
    [ createdBy  |-> IF q.createdBy # Absent THEN q.createdBy
                     ELSE IF RoleOf(u) = "user" THEN u ELSE Absent,
      assignedTo |-> IF RoleOf(u) = "agent" /\ q.assignedTo = "me" THEN u ELSE Absent,
      status     |-> q.status,
      priority   |-> q.priority,
      category   |-> q.category,
      search     |-> q.search ]

\* Ticket.find(query): whether document t satisfies the query object.
QueryMatches(query, t) ==
    /\ query.createdBy = Absent \/ t.createdBy = query.createdBy
    /\ query.assignedTo = Absent \/ t.assignedTo = query.assignedTo
    /\ query.status = Absent \/ t.status = query.status
    /\ query.priority = Absent \/ t.priority = query.priority
    /\ query.category = Absent \/ t.category = query.category
    /\ \/ query.search = Absent
       \/ RegexTest(query.search, t.subject)
       \/ RegexTest(query.search, t.description)

\* GET /api/tickets with page, limit, sortBy and sortOrder at their defaults
\* (one page of 10 holds every ticket of the model).
ListTickets(u, q) ==
    IF ~Authenticated(u)
    THEN Reject("listTickets", u, None, q, 401, "Not authorized to access this route")
    ELSE LET found == {id \in DOMAIN tickets : QueryMatches(ListQuery(u, q), tickets[id])}
         IN  /\ last' = Response("listTickets", u, None, q, 200, "ok",
                                 [tickets |-> found, total |-> Cardinality(found)])
             /\ UNCHANGED <<pending, users, categories, tickets, allocated, clock, voteHist>>

\* The validators of POST /api/tickets/:id/comments.  isInternal is a JSON
\* boolean ("true", "false"), Absent, or something that is no boolean.
ValidComment(b) ==
    /\ Len(b.content) >= 1
    /\ b.isInternal \in {Absent, "true", "false"}

\* MayAddInternal that lets every role write internal comments.
MayAddInternalAnyone(u) == TRUE

\* Line 345: only agents and admins can add internal comments.
MayAddInternal(u) == RoleOf(u) \in {"agent", "admin"}

\* Lines 349-353: the pushed comment.  roleAtWrite is history: the author's
\* role when the comment was written.
NewComment(u, b) ==
    [ content     |-> b.content,
      author      |-> u,
      isInternal  |-> b.isInternal = "true",
      roleAtWrite |-> RoleOf(u) ]

\* POST /api/tickets/:id/comments.
AddComment(u, id, b) ==
    IF ~Authenticated(u)
    THEN Reject("addComment", u, id, b, 401, "Not authorized to access this route")
    ELSE IF id \notin DOMAIN tickets
    THEN Reject("addComment", u, id, b, 404, "Ticket not found")
    ELSE IF ~CreatorPopulated(tickets[id])
    THEN Reject("addComment", u, id, b, 500, "Server error")
    ELSE IF ~CanAccessTicket(u, tickets[id])
    THEN Reject("addComment", u, id, b, 403, "Not authorized to access this ticket")
    ELSE IF ~ValidComment(b)
    THEN Reject("addComment", u, id, b, 400, "validation")
    ELSE IF b.isInternal = "true" /\ ~MayAddInternal(u)
    THEN Reject("addComment", u, id, b, 403, "Not authorized to add internal comments")
    ELSE /\ Len(tickets[id].comments) < MaxComments
         /\ LET doc   == [tickets[id] EXCEPT !.comments = Push(@, NewComment(u, b))]
                saved == PreSave(tickets[id], doc, clock)
            IN  /\ tickets' = [tickets EXCEPT ![id] = saved]
                /\ last' = Response("addComment", u, id, b, 200, "ok",
                                    saved.comments[Len(saved.comments)])
         /\ voteHist' = [voteHist EXCEPT ![id] = <<>>]
         /\ UNCHANGED <<pending, users, categories, allocated, clock>>

\* DELETE /api/tickets/:id.
DeleteTicket(u, id) ==
    IF ~Authenticated(u)
    THEN Reject("deleteTicket", u, id, None, 401, "Not authorized to access this route")
    ELSE IF ~Authorized(u, {"admin"})
    THEN Reject("deleteTicket", u, id, None, 403, "User role is not authorized to access this route")
    ELSE IF id \notin DOMAIN tickets
    THEN Reject("deleteTicket", u, id, None, 404, "Ticket not found")
    ELSE /\ tickets' = [t \in DOMAIN tickets \ {id} |-> tickets[t]]
         /\ voteHist' = [t \in DOMAIN voteHist \ {id} |-> voteHist[t]]
         /\ last' = Response("deleteTicket", u, id, None, 200, "Ticket deleted successfully", None)
         /\ UNCHANGED <<pending, users, categories, allocated, clock>>

-----------------------------------------------------------------------------
(* routes/categories.js.  A name is a sequence of characters over a, A, b, *)
(* B and +; a category document is [name, isActive] (description and color *)
(* are left out).                                                          *)

\* The case folding of the regular expression's i flag.
Lower(c) == IF c = "A" THEN "a" ELSE IF c = "B" THEN "b" ELSE c

\* new RegExp(`^${name}$`, 'i') throws on "+" with nothing to repeat.
RegExpCompiles(name) ==
    /\ name[1] # "+"
    /\ \A i \in 1..(Len(name) - 1) : ~(name[i] = "+" /\ name[i + 1] = "+")

\* Whether pattern[i..] matches all of str[j..], ignoring case: a letter
\* matches itself, a letter followed by + matches one or more of itself.
RECURSIVE MatchFrom(_, _, _, _)
MatchFrom(pattern, i, str, j) ==
    IF i > Len(pattern)
    THEN j > Len(str)
    ELSE LET repeat == i < Len(pattern) /\ pattern[i + 1] = "+"
             hit    == j <= Len(str) /\ Lower(str[j]) = Lower(pattern[i])
         IN  IF repeat
             THEN hit /\ (\/ MatchFrom(pattern, i, str, j + 1)
                          \/ MatchFrom(pattern, i + 2, str, j + 1))
             ELSE hit /\ MatchFrom(pattern, i + 1, str, j + 1)

\* { name: { $regex: new RegExp(`^${name}$`, 'i') } } on a stored name.
NameRegexMatches(name, stored) == MatchFrom(name, 1, stored, 1)

\* Category.findOne of lines 25 and 110-113: a category other than `except`
\* whose name the regular expression built from `name` matches.
NameTaken(name, except) ==
    \E c \in DOMAIN categories \ {except} : NameRegexMatches(name, categories[c].name)

\* The unique index of the Category schema on name (exact match); a write
\* that breaks it fails and the handler answers 500.
UniqueIndexAllows(name, except) ==
    \A c \in DOMAIN categories \ {except} : categories[c].name # name

\* A request body without a name (names are sequences, so Absent, a string,
\* cannot stand for it).
NoName == <<>>

ValidCategoryName(name) == Len(name) >= 2 /\ Len(name) <= 50

\* POST /api/categories.  id is the ObjectId the store gives the new document.
CreateCategory(u, id, b) ==
    /\ id \notin allocated
    /\ IF ~Authenticated(u)
       THEN Reject("createCategory", u, id, b, 401, "Not authorized to access this route")
       ELSE IF ~Authorized(u, {"admin"})
       THEN Reject("createCategory", u, id, b, 403, "User role is not authorized to access this route")
       ELSE IF ~ValidCategoryName(b.name)
       THEN Reject("createCategory", u, id, b, 400, "validation")
       ELSE IF ~RegExpCompiles(b.name)
       THEN Reject("createCategory", u, id, b, 500, "Server error")
       ELSE IF NameTaken(b.name, id)
       THEN Reject("createCategory", u, id, b, 400, "Category already exists")
       ELSE IF ~UniqueIndexAllows(b.name, id)
       THEN Reject("createCategory", u, id, b, 500, "Server error")
       ELSE /\ categories' = categories @@ (id :> [name |-> b.name, isActive |-> TRUE])
            /\ allocated' = allocated \cup {id}
            /\ last' = Response("createCategory", u, id, b, 201, "ok", None)
            /\ UNCHANGED <<pending, users, tickets, clock, voteHist>>

\* The validators of PUT /api/categories/:id.  isActive is a JSON boolean
\* ("true", "false") or Absent.
ValidCategoryUpdate(b) ==
    /\ b.name = NoName \/ ValidCategoryName(b.name)
    /\ b.isActive \in {Absent, "true", "false"}

\* PUT /api/categories/:id.
UpdateCategory(u, id, b) ==
    IF ~Authenticated(u)
    THEN Reject("updateCategory", u, id, b, 401, "Not authorized to access this route")
    ELSE IF ~Authorized(u, {"admin"})
    THEN Reject("updateCategory", u, id, b, 403, "User role is not authorized to access this route")
    ELSE IF ~ValidCategoryUpdate(b)
    THEN Reject("updateCategory", u, id, b, 400, "validation")
    ELSE IF id \notin DOMAIN categories
    THEN Reject("updateCategory", u, id, b, 404, "Category not found")
    ELSE IF b.name # NoName /\ b.name # categories[id].name /\ ~RegExpCompiles(b.name)
    THEN Reject("updateCategory", u, id, b, 500, "Server error")
    ELSE IF b.name # NoName /\ b.name # categories[id].name /\ NameTaken(b.name, id)
    THEN Reject("updateCategory", u, id, b, 400, "Category name already exists")
    ELSE IF b.name # NoName /\ ~UniqueIndexAllows(b.name, id)
    THEN Reject("updateCategory", u, id, b, 500, "Server error")
    ELSE /\ categories' = [categories EXCEPT
                ![id].name = IF b.name # NoName THEN b.name ELSE @,
                ![id].isActive = IF b.isActive # Absent THEN b.isActive = "true" ELSE @]
         /\ last' = Response("updateCategory", u, id, b, 200, "ok", None)
         /\ UNCHANGED <<pending, users, tickets, allocated, clock, voteHist>>

\* POST /api/categories up to the await of Category.create: validation and
\* the lookup of line 25.  The new document's id is reserved.
CreateCategoryLookup(s, u, id, b) ==
    /\ pending[s] = Idle
    /\ id \notin allocated
    /\ IF ~Authenticated(u)
       THEN Reject("createCategory", u, id, b, 401, "Not authorized to access this route")
       ELSE IF ~Authorized(u, {"admin"})
       THEN Reject("createCategory", u, id, b, 403, "User role is not authorized to access this route")
       ELSE IF ~ValidCategoryName(b.name)
       THEN Reject("createCategory", u, id, b, 400, "validation")
       ELSE IF ~RegExpCompiles(b.name)
       THEN Reject("createCategory", u, id, b, 500, "Server error")
       ELSE IF NameTaken(b.name, id)
       THEN Reject("createCategory", u, id, b, 400, "Category already exists")
       ELSE /\ pending' = [pending EXCEPT ![s] =
                  [kind |-> "createCategory", user |-> u, id |-> id, req |-> b]]
            /\ allocated' = allocated \cup {id}
            /\ UNCHANGED <<users, categories, tickets, clock, last, voteHist>>

\* Category.create of a create category in flight, and the response.
CreateCategoryWrite(s) ==
    /\ pending[s].kind = "createCategory"
    /\ LET r == pending[s]
       IN  IF ~UniqueIndexAllows(r.req.name, r.id)
           THEN Fail(s, "createCategory", r.user, r.id, r.req, 500, "Server error")
           ELSE /\ categories' = categories @@
                      (r.id :> [name |-> r.req.name, isActive |-> TRUE])
                /\ last' = Response("createCategory", r.user, r.id, r.req, 201, "ok", None)
                /\ pending' = [pending EXCEPT ![s] = Idle]
                /\ UNCHANGED <<users, tickets, allocated, clock, voteHist>>

\* PUT /api/categories/:id up to the await of category.save(): the category
\* is loaded and, for a new name, the lookup of lines 110-113 has run.
UpdateCategoryLookup(s, u, id, b) ==
    /\ pending[s] = Idle
    /\ IF ~Authenticated(u)
       THEN Reject("updateCategory", u, id, b, 401, "Not authorized to access this route")
       ELSE IF ~Authorized(u, {"admin"})
       THEN Reject("updateCategory", u, id, b, 403, "User role is not authorized to access this route")
       ELSE IF ~ValidCategoryUpdate(b)
       THEN Reject("updateCategory", u, id, b, 400, "validation")
       ELSE IF id \notin DOMAIN categories
       THEN Reject("updateCategory", u, id, b, 404, "Category not found")
       ELSE IF b.name # NoName /\ b.name # categories[id].name /\ ~RegExpCompiles(b.name)
       THEN Reject("updateCategory", u, id, b, 500, "Server error")
       ELSE IF b.name # NoName /\ b.name # categories[id].name /\ NameTaken(b.name, id)
       THEN Reject("updateCategory", u, id, b, 400, "Category name already exists")
       ELSE /\ pending' = [pending EXCEPT ![s] =
                  [kind |-> "updateCategory", user |-> u, id |-> id, req |-> b,
                   loaded |-> categories[id]]]
            /\ UNCHANGED <<users, categories, tickets, allocated, clock, last, voteHist>>

\* category.save() of an update category in flight, and the response: the
\* paths that differ from the loaded document are written.
UpdateCategorySave(s) ==
    /\ pending[s].kind = "updateCategory"
    /\ LET r        == pending[s]
           setName  == r.req.name # NoName /\ r.req.name # r.loaded.name
           isActive == IF r.req.isActive # Absent THEN r.req.isActive = "true"
                       ELSE r.loaded.isActive
       IN  IF r.id \notin DOMAIN categories
           THEN Fail(s, "updateCategory", r.user, r.id, r.req, 500, "Server error")
           ELSE IF setName /\ ~UniqueIndexAllows(r.req.name, r.id)
           THEN Fail(s, "updateCategory", r.user, r.id, r.req, 500, "Server error")
           ELSE /\ categories' = [categories EXCEPT
                      ![r.id].name = IF setName THEN r.req.name ELSE @,
                      ![r.id].isActive = IF isActive # r.loaded.isActive THEN isActive ELSE @]
                /\ last' = Response("updateCategory", r.user, r.id, r.req, 200, "ok", None)
                /\ pending' = [pending EXCEPT ![s] = Idle]
                /\ UNCHANGED <<users, tickets, allocated, clock, voteHist>>

\* TicketsUsingCategory that finds no ticket.
NoTicketsUsingCategory(id) == FALSE

\* Line 146: Ticket.findOne({ category: req.params.id }).
TicketsUsingCategory(id) == \E t \in DOMAIN tickets : tickets[t].category = id

\* DELETE /api/categories/:id.
DeleteCategory(u, id) ==
    IF ~Authenticated(u)
    THEN Reject("deleteCategory", u, id, None, 401, "Not authorized to access this route")
    ELSE IF ~Authorized(u, {"admin"})
    THEN Reject("deleteCategory", u, id, None, 403, "User role is not authorized to access this route")
    ELSE IF id \notin DOMAIN categories
    THEN Reject("deleteCategory", u, id, None, 404, "Category not found")
    ELSE IF TicketsUsingCategory(id)
    THEN Reject("deleteCategory", u, id, None, 400, "Cannot delete category that is being used by tickets")
    ELSE /\ categories' = [c \in DOMAIN categories \ {id} |-> categories[c]]
         /\ last' = Response("deleteCategory", u, id, None, 200, "Category deleted successfully", None)
         /\ UNCHANGED <<pending, users, tickets, allocated, clock, voteHist>>

\* DELETE /api/categories/:id up to the await of category.remove(): the
\* category is found and no ticket is filed under it.
DeleteCategoryCheck(s, u, id) ==
    /\ pending[s] = Idle
    /\ IF ~Authenticated(u)
       THEN Reject("deleteCategory", u, id, None, 401, "Not authorized to access this route")
       ELSE IF ~Authorized(u, {"admin"})
       THEN Reject("deleteCategory", u, id, None, 403, "User role is not authorized to access this route")
       ELSE IF id \notin DOMAIN categories
       THEN Reject("deleteCategory", u, id, None, 404, "Category not found")
       ELSE IF TicketsUsingCategory(id)
       THEN Reject("deleteCategory", u, id, None, 400, "Cannot delete category that is being used by tickets")
       ELSE /\ pending' = [pending EXCEPT ![s] =
                  [kind |-> "deleteCategory", user |-> u, id |-> id]]
            /\ UNCHANGED <<users, categories, tickets, allocated, clock, last, voteHist>>

\* category.remove() of a delete category in flight, and the response.
DeleteCategoryRemove(s) ==
    /\ pending[s].kind = "deleteCategory"
    /\ LET r == pending[s]
       IN  /\ categories' = [c \in DOMAIN categories \ {r.id} |-> categories[c]]
           /\ last' = Response("deleteCategory", r.user, r.id, None, 200,
                               "Category deleted successfully", None)
    /\ pending' = [pending EXCEPT ![s] = Idle]
    /\ UNCHANGED <<users, tickets, allocated, clock, voteHist>>

-----------------------------------------------------------------------------
(* routes/users.js.  A user document is [role, isActive, email] (name,     *)
(* password and avatar are left out).  A boolean of a request body is      *)
(* "true" or "false" when the JSON carries a boolean and "'true'" or       *)
(* "'false'" when it carries the string.                                   *)

\* The email of each account: setup.js for the seeded ones.
SeedEmail(u) ==
    IF u = "admin" THEN "admin@quickdesk.com"
    ELSE IF u = "agent" THEN "agent@quickdesk.com"
    ELSE IF u = "user" THEN "user@quickdesk.com"
    ELSE "user2@quickdesk.com"

\* isEmail() on the email inputs of the model.
IsEmail(e) == e # "not-an-email"

\* normalizeEmail(): the address in lower case.
NormalizeEmail(e) ==
    IF e = "Agent@QuickDesk.com" THEN "agent@quickdesk.com"
    ELSE IF e = "New@QuickDesk.com" THEN "new@quickdesk.com"
    ELSE e

\* isBoolean(): the value, as a string, is one of true, false (1 and 0 are
\* left out); a boolean and the string that spells it both pass.
IsBooleanString(v) == v \in {"true", "false", "'true'", "'false'"}

\* isActive === false: only the boolean false.
StrictlyFalse(v) == v = "false"

\* The cast of a value assigned to a Boolean path of a document.
CastBoolean(v) == v \in {"true", "'true'"}

\* The validators of PUT /api/users/:id.
ValidUserUpdate(b) ==
    /\ b.email = Absent \/ IsEmail(b.email)
    /\ b.role = Absent \/ b.role \in Roles
    /\ b.isActive = Absent \/ IsBooleanString(b.isActive)

\* Line 127: User.findOne({ email }).
EmailExists(email) == \E x \in DOMAIN users : users[x].email = email

\* Line 121: the requester targets their own id with isActive false.
SelfDeactivation(u, id, b) == id = u /\ StrictlyFalse(b.isActive)

\* PUT /api/users/:id.
UpdateUser(u, id, b) ==
    IF ~Authenticated(u)
    THEN Reject("updateUser", u, id, b, 401, "Not authorized to access this route")
    ELSE IF ~Authorized(u, {"admin"})
    THEN Reject("updateUser", u, id, b, 403, "User role is not authorized to access this route")
    ELSE IF ~ValidUserUpdate(b)
    THEN Reject("updateUser", u, id, b, 400, "validation")
    ELSE IF id \notin DOMAIN users
    THEN Reject("updateUser", u, id, b, 404, "User not found")
    ELSE IF SelfDeactivation(u, id, b)
    THEN Reject("updateUser", u, id, b, 400, "Cannot deactivate your own account")
    ELSE LET email == IF b.email = Absent THEN Absent ELSE NormalizeEmail(b.email)
         IN  IF email # Absent /\ email # users[id].email /\ EmailExists(email)
             THEN Reject("updateUser", u, id, b, 400, "Email already in use")
             ELSE /\ users' = [users EXCEPT
                         ![id].email    = IF email # Absent THEN email ELSE @,
                         ![id].role     = IF b.role # Absent THEN b.role ELSE @,
                         ![id].isActive = IF b.isActive # Absent
                                          THEN CastBoolean(b.isActive) ELSE @]
                  /\ last' = Response("updateUser", u, id, b, 200, "ok", None)
                  /\ UNCHANGED <<pending, categories, tickets, allocated, clock, voteHist>>

\* Line 165: Ticket.findOne({ createdBy: req.params.id }).
TicketsCreatedBy(id) == \E t \in DOMAIN tickets : tickets[t].createdBy = id

\* DeleteUser that removes the user before it looks for the user's tickets.
DeleteUserRemoveFirst(u, id) ==
    IF ~Authenticated(u)
    THEN Reject("deleteUser", u, id, None, 401, "Not authorized to access this route")
    ELSE IF ~Authorized(u, {"admin"})
    THEN Reject("deleteUser", u, id, None, 403, "User role is not authorized to access this route")
    ELSE IF id \notin DOMAIN users
    THEN Reject("deleteUser", u, id, None, 404, "User not found")
    ELSE IF id = u
    THEN Reject("deleteUser", u, id, None, 400, "Cannot delete your own account")
    ELSE /\ users' = [x \in DOMAIN users \ {id} |-> users[x]]
         /\ last' = IF TicketsCreatedBy(id)
                    THEN Response("deleteUser", u, id, None, 400,
                                  "Cannot delete user who has created tickets", None)
                    ELSE Response("deleteUser", u, id, None, 200,
                                  "User deleted successfully", None)
         /\ UNCHANGED <<pending, categories, tickets, allocated, clock, voteHist>>

\* DELETE /api/users/:id.
DeleteUser(u, id) ==
    IF ~Authenticated(u)
    THEN Reject("deleteUser", u, id, None, 401, "Not authorized to access this route")
    ELSE IF ~Authorized(u, {"admin"})
    THEN Reject("deleteUser", u, id, None, 403, "User role is not authorized to access this route")
    ELSE IF id \notin DOMAIN users
    THEN Reject("deleteUser", u, id, None, 404, "User not found")
    ELSE IF id = u
    THEN Reject("deleteUser", u, id, None, 400, "Cannot delete your own account")
    ELSE IF TicketsCreatedBy(id)
    THEN Reject("deleteUser", u, id, None, 400, "Cannot delete user who has created tickets")
    ELSE /\ users' = [x \in DOMAIN users \ {id} |-> users[x]]
         /\ last' = Response("deleteUser", u, id, None, 200, "User deleted successfully", None)
         /\ UNCHANGED <<pending, categories, tickets, allocated, clock, voteHist>>

\* DELETE /api/users/:id up to the await of user.remove(): the user is
\* found, is not the requester and has created no ticket.
DeleteUserCheck(s, u, id) ==
    /\ pending[s] = Idle
    /\ IF ~Authenticated(u)
       THEN Reject("deleteUser", u, id, None, 401, "Not authorized to access this route")
       ELSE IF ~Authorized(u, {"admin"})
       THEN Reject("deleteUser", u, id, None, 403, "User role is not authorized to access this route")
       ELSE IF id \notin DOMAIN users
       THEN Reject("deleteUser", u, id, None, 404, "User not found")
       ELSE IF id = u
       THEN Reject("deleteUser", u, id, None, 400, "Cannot delete your own account")
       ELSE IF TicketsCreatedBy(id)
       THEN Reject("deleteUser", u, id, None, 400, "Cannot delete user who has created tickets")
       ELSE /\ pending' = [pending EXCEPT ![s] =
                  [kind |-> "deleteUser", user |-> u, id |-> id]]
            /\ UNCHANGED <<users, categories, tickets, allocated, clock, last, voteHist>>

\* user.remove() of a delete user in flight, and the response.
DeleteUserRemove(s) ==
    /\ pending[s].kind = "deleteUser"
    /\ LET r == pending[s]
       IN  /\ users' = [x \in DOMAIN users \ {r.id} |-> users[x]]
           /\ last' = Response("deleteUser", r.user, r.id, None, 200,
                               "User deleted successfully", None)
    /\ pending' = [pending EXCEPT ![s] = Idle]
    /\ UNCHANGED <<categories, tickets, allocated, clock, voteHist>>

\* The queries of the dashboard's Promise.all, lines 199-216.
DashboardQueries ==
    {"totalUsers", "totalTickets", "totalCategories", "openTickets",
     "inProgressTickets", "resolvedTickets", "closedTickets", "userStats",
     "categoryStats"}

\* Ticket.countDocuments({ status }).
CountStatus(status) == Cardinality({t \in DOMAIN tickets : tickets[t].status = status})

\* User.aggregate $group by role: the count of each role that occurs.
UserStats ==
    [r \in {users[u].role : u \in DOMAIN users} |->
        Cardinality({u \in DOMAIN users : users[u].role = r})]

\* Ticket.aggregate: $lookup and $unwind keep the tickets whose category is
\* in the store, $group counts them by category name.  The model holds
\* fewer than five names, so $sort and $limit leave the groups as they are.
CategoryStats ==
    LET joined == {t \in DOMAIN tickets : tickets[t].category \in DOMAIN categories}
    IN  [n \in {categories[tickets[t].category].name : t \in joined} |->
            Cardinality({t \in joined : categories[tickets[t].category].name = n})]

\* What query q of the dashboard reads from the stores of this moment.
QueryResult(q) ==
    CASE q = "totalUsers"        -> Cardinality(DOMAIN users)
      [] q = "totalTickets"      -> Cardinality(DOMAIN tickets)
      [] q = "totalCategories"   -> Cardinality(DOMAIN categories)
      [] q = "openTickets"       -> CountStatus("open")
      [] q = "inProgressTickets" -> CountStatus("in-progress")
      [] q = "resolvedTickets"   -> CountStatus("resolved")
      [] q = "closedTickets"     -> CountStatus("closed")
      [] q = "userStats"         -> UserStats
      [] q = "categoryStats"     -> CategoryStats

\* Lines 220-239: the stats object built from the results of the queries.
DashboardStats(got) ==
    [ users      |-> [total |-> got.totalUsers, byRole |-> got.userStats],
      tickets    |-> [total      |-> got.totalTickets,
                      open       |-> got.openTickets,
                      inProgress |-> got.inProgressTickets,
                      resolved   |-> got.resolvedTickets,
                      closed     |-> got.closedTickets],
      categories |-> [total |-> got.totalCategories,
                      topCategories |-> got.categoryStats] ]

\* GET /api/users/stats/dashboard up to the await of Promise.all: protect
\* and authorize have run and the nine queries are sent.
DashboardStart(s, u) ==
    /\ pending[s] = Idle
    /\ IF ~Authenticated(u)
       THEN Reject("dashboard", u, None, None, 401, "Not authorized to access this route")
       ELSE IF ~Authorized(u, {"admin"})
       THEN Reject("dashboard", u, None, None, 403, "User role is not authorized to access this route")
       ELSE /\ pending' = [pending EXCEPT ![s] =
                  [kind |-> "dashboard", user |-> u, done |-> {},
                   got |-> [q \in DashboardQueries |-> 0]]]
            /\ UNCHANGED <<users, categories, tickets, allocated, clock, last, voteHist>>

\* The store answers one of the queries of a dashboard in flight.  The
\* queries are independent commands; the store answers them in any order.
DashboardRead(s, q) ==
    /\ pending[s].kind = "dashboard"
    /\ q \in DashboardQueries \ pending[s].done
    /\ pending' = [pending EXCEPT ![s].done = @ \cup {q},
                                  ![s].got[q] = QueryResult(q)]
    /\ UNCHANGED <<users, categories, tickets, allocated, clock, last, voteHist>>

\* All queries of a dashboard in flight are answered: the response.
DashboardRespond(s) ==
    /\ pending[s].kind = "dashboard"
    /\ pending[s].done = DashboardQueries
    /\ last' = Response("dashboard", pending[s].user, None, None, 200, "ok",
                        DashboardStats(pending[s].got))
    /\ pending' = [pending EXCEPT ![s] = Idle]
    /\ UNCHANGED <<users, categories, tickets, allocated, clock, voteHist>>

-----------------------------------------------------------------------------
(* The initial state: the seeded accounts, one registered user, one category *)

Init ==
    /\ users = [u \in UserIds |->
                  [role |-> IF u \in {"admin", "agent"} THEN u ELSE "user",
                   isActive |-> TRUE,
                   email |-> SeedEmail(u)]]
    /\ categories = [c \in {"c1"} |-> [name |-> <<"a", "b">>, isActive |-> TRUE]]
    /\ tickets = <<>>
    /\ allocated = UserIds \cup {"c1"}
    /\ clock = 1
    /\ last = Response("none", None, None, None, 0, "none", None)
    /\ voteHist = <<>>
    /\ pending = [s \in Slots |-> Idle]

-----------------------------------------------------------------------------
(* Voting: tickets are created and voted on *)

VoteTicketIds == {"t1"}

VoteCreateBodies ==
    {[subject |-> "Printer jams", description |-> "It jams on every page",
      category |-> "c1", priority |-> Absent]}

VoteTypes == {"upvote", "downvote", "sideways"}

NextVote ==
    \/ \E u \in {"user"}, id \in VoteTicketIds, b \in VoteCreateBodies : CreateTicket(u, id, b)
    \/ \E u \in UserIds, id \in VoteTicketIds, v \in VoteTypes : Vote(u, id, v)

SpecVote == Init /\ [][NextVote]_vars

-----------------------------------------------------------------------------
(* The ticket lifecycle: a ticket is created and updated *)

UpdateTicketIds == {"t1"}

Body(status, priority, assignedTo, subject, description, category) ==
    [status |-> status, priority |-> priority, assignedTo |-> assignedTo,
     subject |-> subject, description |-> description, category |-> category]

UpdateBodies ==
    {Body(s, Absent, Absent, Absent, Absent, Absent) : s \in Statuses}
    \cup {Body(Absent, "high", a, Absent, Absent, Absent) : a \in {"agent", "user2"}}
    \cup {Body("closed", "low", "agent", "Printer on fire", "Smoke comes out of it", "c2"),
          Body("in-progress", Absent, Absent, "Printer on fire", Absent, Absent),
          Body(Absent, Absent, Absent, "Printer on fire", "Smoke comes out of it", "c2"),
          Body("resolved", Absent, Absent, "bug", Absent, Absent)}

NextUpdate ==
    \/ \E u \in {"user", "agent"}, id \in UpdateTicketIds, b \in VoteCreateBodies :
          CreateTicket(u, id, b)
    \/ \E u \in UserIds, id \in UpdateTicketIds, b \in UpdateBodies : UpdateTicket(u, id, b)

SpecUpdate == Init /\ [][NextUpdate]_vars

-----------------------------------------------------------------------------
(* Listing: tickets of several users are created, assigned and listed *)

ListCreateBodies ==
    VoteCreateBodies
    \cup {[subject |-> "Login fails", description |-> "Password is rejected",
           category |-> "c1", priority |-> "high"]}

ListUpdateBodies == {Body("resolved", Absent, "agent", Absent, Absent, Absent)}

Query(status, priority, category, createdBy, assignedTo, search) ==
    [status |-> status, priority |-> priority, category |-> category,
     createdBy |-> createdBy, assignedTo |-> assignedTo, search |-> search]

ListQueries ==
    {Query(s, Absent, Absent, c, a, t) :
        s \in {Absent, "open"}, c \in {Absent, "user", "user2"},
        a \in {Absent, "me"}, t \in {Absent, "PRINTER"}}
    \cup {Query(Absent, "high", "c1", c, Absent, "jams") : c \in {Absent, "user2"}}

NextList ==
    \/ \E u \in {"user", "user2"}, id \in TicketIds, b \in ListCreateBodies :
          CreateTicket(u, id, b)
    \/ \E id \in TicketIds, b \in ListUpdateBodies : UpdateTicket("agent", id, b)
    \/ \E u \in UserIds, q \in ListQueries : ListTickets(u, q)

SpecList == Init /\ [][NextList]_vars

-----------------------------------------------------------------------------
(* Commenting: a ticket is created and commented on *)

CommentBodies ==
    {[content |-> c, isInternal |-> i] :
        c \in {"Thanks", ""}, i \in {Absent, "true", "false", "maybe"}}

NextComment ==
    \/ \E id \in UpdateTicketIds, b \in VoteCreateBodies : CreateTicket("user", id, b)
    \/ \E u \in UserIds, id \in UpdateTicketIds, b \in CommentBodies : AddComment(u, id, b)

SpecComment == Init /\ [][NextComment]_vars

-----------------------------------------------------------------------------
(* Categories: categories are created, renamed, switched and deleted while *)
(* tickets are filed under them                                            *)

NameInputs ==
    {<<"a", "b">>, <<"A", "B">>, <<"a", "+">>, <<"A", "+">>, <<"a">>, <<"+", "a">>}

CategoryUpdateBodies ==
    {[name |-> n, isActive |-> a] :
        n \in NameInputs \cup {NoName}, a \in {Absent, "true", "false"}}

CategoryTicketBodies ==
    {[subject |-> "Printer jams", description |-> "It jams on every page",
      category |-> c, priority |-> Absent] : c \in CategoryIds}

NextCategory ==
    \/ \E u \in {"admin", "agent"}, id \in CategoryIds, n \in NameInputs :
          CreateCategory(u, id, [name |-> n])
    \/ \E u \in {"admin", "agent"}, id \in CategoryIds, b \in CategoryUpdateBodies :
          UpdateCategory(u, id, b)
    \/ \E u \in {"admin", "agent"}, id \in CategoryIds : DeleteCategory(u, id)
    \/ \E id \in UpdateTicketIds, b \in CategoryTicketBodies : CreateTicket("user", id, b)

SpecCategory == Init /\ [][NextCategory]_vars

-----------------------------------------------------------------------------
(* Accounts: the admin updates and deletes users while users file tickets, *)
(* vote, comment and edit                                                  *)

UserBody(email, role, isActive) == [email |-> email, role |-> role, isActive |-> isActive]

UserUpdateBodies ==
    {UserBody(Absent, Absent, a) : a \in {"true", "false", "'false'", "maybe"}}
    \cup {UserBody("Agent@QuickDesk.com", Absent, Absent),
          UserBody("not-an-email", "user", Absent)}

UserCommentBodies == {[content |-> "Thanks", isInternal |-> Absent]}

UserTicketUpdates == {Body("closed", Absent, Absent, "Printer on fire", Absent, Absent)}

NextUser ==
    \/ \E u \in {"admin", "user2"}, id \in {"admin", "user", "user2"}, b \in UserUpdateBodies :
          UpdateUser(u, id, b)
    \/ \E u \in {"admin", "user2"}, id \in {"admin", "user", "user2"} : DeleteUser(u, id)
    \/ \E id \in UpdateTicketIds, b \in VoteCreateBodies : CreateTicket("user", id, b)
    \/ \E id \in UpdateTicketIds : Vote("user", id, "upvote")
    \/ \E id \in UpdateTicketIds, b \in UserCommentBodies : AddComment("user", id, b)
    \/ \E id \in UpdateTicketIds, b \in UserTicketUpdates : UpdateTicket("user", id, b)

SpecUser == Init /\ [][NextUser]_vars

-----------------------------------------------------------------------------
(* Access: a ticket is created and assigned, roles change, and every       *)
(* account reads the ticket and comments on it                             *)

AccessUpdateBodies ==
    {Body(Absent, Absent, a, Absent, Absent, Absent) : a \in {"agent", "user2"}}

AccessUserBodies == {UserBody(Absent, r, Absent) : r \in {"user", "agent"}}

AccessCommentBodies ==
    {[content |-> "Thanks", isInternal |-> i] : i \in {Absent, "true"}}
    \cup {[content |-> "", isInternal |-> Absent]}

NextAccess ==
    \/ \E id \in UpdateTicketIds, b \in VoteCreateBodies : CreateTicket("user", id, b)
    \/ \E u \in {"agent", "user2"}, id \in UpdateTicketIds, b \in AccessUpdateBodies :
          UpdateTicket(u, id, b)
    \/ \E id \in {"agent", "user2"}, b \in AccessUserBodies : UpdateUser("admin", id, b)
    \/ \E u \in UserIds, id \in TicketIds : GetTicket(u, id)
    \/ \E u \in UserIds, id \in UpdateTicketIds, b \in AccessCommentBodies : AddComment(u, id, b)

SpecAccess == Init /\ [][NextAccess]_vars

-----------------------------------------------------------------------------
(* The desk: every writing operation of the three routers on one ticket,   *)
(* the categories and the accounts                                         *)

DeskCreateBodies ==
    VoteCreateBodies
    \cup {[subject |-> "bug", description |-> "It jams on every page",
           category |-> "c1", priority |-> Absent],
          [subject |-> "Printer jams", description |-> "It jams on every page",
           category |-> "c2", priority |-> Absent]}

DeskUpdateBodies ==
    {Body("resolved", Absent, Absent, "Printer on fire", Absent, Absent),
     Body("done", Absent, Absent, Absent, Absent, Absent)}

DeskCommentBodies ==
    {[content |-> c, isInternal |-> Absent] : c \in {"Thanks", ""}}
    \cup {[content |-> "Thanks", isInternal |-> "true"]}

DeskCategoryNames == {<<"a", "b">>, <<"a", "+">>, <<"a">>}

DeskCategoryBodies ==
    {[name |-> <<"a", "b">>, isActive |-> Absent], [name |-> <<"a">>, isActive |-> Absent]}

DeskUserBodies ==
    {UserBody(Absent, Absent, "false"),
     UserBody("Agent@QuickDesk.com", Absent, Absent),
     UserBody(Absent, "root", Absent)}

NextDesk ==
    \/ \E u \in {"user", "user2"}, id \in UpdateTicketIds, b \in DeskCreateBodies :
          CreateTicket(u, id, b)
    \/ \E u \in {"user", "user2", "agent"}, id \in UpdateTicketIds, b \in DeskUpdateBodies :
          UpdateTicket(u, id, b)
    \/ \E u \in {"user", "user2"}, id \in UpdateTicketIds, b \in DeskCommentBodies :
          AddComment(u, id, b)
    \/ \E id \in UpdateTicketIds, v \in {"upvote", "sideways"} : Vote("user", id, v)
    \/ \E u \in {"admin", "agent", "user"}, id \in UpdateTicketIds : DeleteTicket(u, id)
    \/ \E u \in {"admin", "agent"}, n \in DeskCategoryNames :
          CreateCategory(u, "c2", [name |-> n])
    \/ \E u \in {"admin", "agent"}, b \in DeskCategoryBodies : UpdateCategory(u, "c2", b)
    \/ \E u \in {"admin", "agent"}, id \in CategoryIds : DeleteCategory(u, id)
    \/ \E u \in {"admin", "agent"}, id \in {"admin", "user2"}, b \in DeskUserBodies :
          UpdateUser(u, id, b)
    \/ \E u \in {"admin", "agent"}, id \in {"admin", "user", "user2"} : DeleteUser(u, id)

SpecDesk == Init /\ [][NextDesk]_vars

-----------------------------------------------------------------------------
(* One ticket through its life: created, edited, commented on, voted on    *)
(* and deleted                                                             *)

TicketUpdateBodies ==
    {Body("resolved", Absent, "agent", "Printer on fire", Absent, Absent),
     Body(Absent, "high", Absent, Absent, "Smoke comes out of it", "c2")}

TicketCommentBodies ==
    {[content |-> c, isInternal |-> Absent] : c \in {"Thanks", "Again"}}
    \cup {[content |-> "Thanks", isInternal |-> "true"]}

NextTicket ==
    \/ \E u \in {"user", "user2"}, id \in UpdateTicketIds, b \in VoteCreateBodies :
          CreateTicket(u, id, b)
    \/ \E u \in {"user", "user2", "agent"}, id \in UpdateTicketIds, b \in TicketUpdateBodies :
          UpdateTicket(u, id, b)
    \/ \E u \in {"user", "user2"}, id \in UpdateTicketIds, b \in TicketCommentBodies :
          AddComment(u, id, b)
    \/ \E u \in {"user", "admin"}, id \in UpdateTicketIds : Vote(u, id, "upvote")
    \/ \E u \in {"admin", "agent", "user"}, id \in UpdateTicketIds : DeleteTicket(u, id)

SpecTicket == Init /\ [][NextTicket]_vars

-----------------------------------------------------------------------------
(* Votes in flight: two vote requests load the ticket before either saves *)

RaceVoteTypes == {"upvote", "downvote"}

NextVoteRace ==
    \/ \E id \in VoteTicketIds, b \in VoteCreateBodies : CreateTicket("user", id, b)
    \/ \E s \in Slots, u \in {"user", "agent"}, id \in VoteTicketIds, v \in RaceVoteTypes :
          VoteLoad(s, u, id, v)
    \/ \E s \in Slots : VoteSave(s)

SpecVoteRace == Init /\ [][NextVoteRace]_vars

-----------------------------------------------------------------------------
(* Tickets and their category: tickets are filed and moved between         *)
(* categories while categories are deleted, with the checks and the writes *)
(* of create ticket and delete category apart                              *)

RefUpdateBodies ==
    {Body(Absent, Absent, Absent, Absent, Absent, c) : c \in CategoryIds}

NextCategoryRefs ==
    \/ \E s \in Slots, id \in TicketIds, b \in VoteCreateBodies :
          CreateTicketCheck(s, "user", id, b)
    \/ \E s \in Slots : CreateTicketWrite(s)
    \/ \E id \in TicketIds, b \in RefUpdateBodies : UpdateTicket("user", id, b)
    \/ \E s \in Slots, id \in CategoryIds : DeleteCategoryCheck(s, "admin", id)
    \/ \E s \in Slots : DeleteCategoryRemove(s)
    \/ \E n \in {<<"a", "+">>} : CreateCategory("admin", "c2", [name |-> n])

SpecCategoryRefs == Init /\ [][NextCategoryRefs]_vars

-----------------------------------------------------------------------------
(* Administrators: accounts are promoted, demoted, switched and deleted *)

AdminUserBodies ==
    {UserBody(Absent, r, Absent) : r \in {"user", "admin"}}
    \cup {UserBody(Absent, Absent, a) : a \in {"true", "false"}}

NextAdmin ==
    \/ \E u \in {"admin", "user2"}, id \in {"admin", "user2"}, b \in AdminUserBodies :
          UpdateUser(u, id, b)
    \/ \E u \in {"admin", "user2"}, id \in {"admin", "user2"} : DeleteUser(u, id)

SpecAdmin == Init /\ [][NextAdmin]_vars

-----------------------------------------------------------------------------
(* Updates in flight: two requests hold the same ticket loaded *)

RaceUpdateBodies ==
    {Body(st, Absent, Absent, Absent, Absent, Absent) : st \in {"resolved", "closed", "open"}}

NextUpdateRace ==
    \/ \E id \in UpdateTicketIds, b \in VoteCreateBodies : CreateTicket("user", id, b)
    \/ \E s \in Slots, u \in {"agent", "admin"}, id \in UpdateTicketIds, b \in RaceUpdateBodies :
          UpdateTicketLoad(s, u, id, b)
    \/ \E s \in Slots : UpdateTicketSave(s)

SpecUpdateRace == Init /\ [][NextUpdateRace]_vars

-----------------------------------------------------------------------------
(* Categories in flight: two requests look names up before either writes *)

RaceCategoryIds == {"c2", "c3"}

RaceNameInputs == {<<"b", "a">>, <<"B", "A">>}

NextCategoryRace ==
    \/ \E s \in Slots, id \in RaceCategoryIds, n \in RaceNameInputs :
          CreateCategoryLookup(s, "admin", id, [name |-> n])
    \/ \E s \in Slots : CreateCategoryWrite(s)
    \/ \E s \in Slots, id \in {"c1", "c2"}, n \in RaceNameInputs :
          UpdateCategoryLookup(s, "admin", id, [name |-> n, isActive |-> Absent])
    \/ \E s \in Slots : UpdateCategorySave(s)

SpecCategoryRace == Init /\ [][NextCategoryRace]_vars

-----------------------------------------------------------------------------
(* Users that tickets refer to: tickets are created and assigned while *)
(* accounts are deleted                                                  *)

UserRefUpdateBodies ==
    {Body(Absent, Absent, a, Absent, Absent, Absent) : a \in {"agent", "user2"}}

NextUserRefs ==
    \/ \E s \in Slots, u \in {"user", "user2"}, id \in TicketIds, b \in VoteCreateBodies :
          CreateTicketCheck(s, u, id, b)
    \/ \E s \in Slots : CreateTicketWrite(s)
    \/ \E id \in TicketIds, b \in UserRefUpdateBodies : UpdateTicket("agent", id, b)
    \/ \E s \in Slots, id \in {"user2", "agent"} : DeleteUserCheck(s, "admin", id)
    \/ \E s \in Slots : DeleteUserRemove(s)

SpecUserRefs == Init /\ [][NextUserRefs]_vars

-----------------------------------------------------------------------------
(* Assignment: tickets are assigned, reassigned, reopened and removed *)

AssignUpdateBodies ==
    {Body(Absent, Absent, a, Absent, Absent, Absent) : a \in {"agent", "user", "user2", ""}}
    \cup {Body(st, Absent, Absent, Absent, Absent, Absent) : st \in {"open", "in-progress"}}

NextAssign ==
    \/ \E id \in TicketIds, b \in VoteCreateBodies : CreateTicket("user", id, b)
    \/ \E u \in {"agent", "user", "user2"}, id \in TicketIds, b \in AssignUpdateBodies :
          UpdateTicket(u, id, b)
    \/ \E id \in TicketIds : Vote("user2", id, "upvote")
    \/ \E id \in TicketIds : DeleteTicket("admin", id)

SpecAssign == Init /\ [][NextAssign]_vars

-----------------------------------------------------------------------------
(* The dashboard: its queries run while tickets are created, updated and *)
(* deleted                                                                *)

DashboardUpdateBodies ==
    {Body(st, Absent, Absent, Absent, Absent, Absent) : st \in {"resolved", "closed"}}

NextDashboard ==
    \/ \E id \in UpdateTicketIds, b \in VoteCreateBodies : CreateTicket("user", id, b)
    \/ \E id \in UpdateTicketIds, b \in DashboardUpdateBodies : UpdateTicket("agent", id, b)
    \/ \E id \in UpdateTicketIds : DeleteTicket("admin", id)
    \/ \E u \in {"admin", "agent"} : DashboardStart("r1", u)
    \/ \E q \in DashboardQueries : DashboardRead("r1", q)
    \/ DashboardRespond("r1")

SpecDashboard == Init /\ [][NextDashboard]_vars

-----------------------------------------------------------------------------
(* Voting *)

\* C1: no user id is in both the upvoters and the downvoters of a ticket, in
\* every state reached by votes executed one at a time.
VotesDisjoint ==
    \A id \in DOMAIN tickets :
        Elems(tickets[id].upvotes) \cap Elems(tickets[id].downvotes) = {}

\* A user who held an upvote has just voted down and is now a downvoter,
\* while another user holds an upvote.
VoteSwitched ==
    \E id \in DOMAIN tickets :
        /\ Len(voteHist[id]) = 2
        /\ voteHist[id][2].voteType = "downvote"
        /\ voteHist[id][2].user \in voteHist[id][2].up
        /\ voteHist[id][2].user \in Elems(tickets[id].downvotes)
        /\ Elems(tickets[id].upvotes) # {}

\* The last two successful votes on ticket id were cast by the same user in
\* the same direction, with nothing else saved on the ticket in between.
SameVoteTwice(id) ==
    /\ Len(voteHist[id]) = 2
    /\ voteHist[id][1].user = voteHist[id][2].user
    /\ voteHist[id][1].voteType = voteHist[id][2].voteType

\* Whether the voter of the pair held the opposite vote before the first one.
HeldOpposite(id) ==
    IF voteHist[id][1].voteType = "upvote"
    THEN voteHist[id][1].user \in voteHist[id][1].down
    ELSE voteHist[id][1].user \in voteHist[id][1].up

\* C2 as stated: two consecutive votes by one user in one direction leave
\* the upvoters and the downvoters as they were before the first.
VoteTwiceRestores ==
    \A id \in DOMAIN tickets :
        SameVoteTwice(id) =>
            /\ Elems(tickets[id].upvotes) = voteHist[id][1].up
            /\ Elems(tickets[id].downvotes) = voteHist[id][1].down

\* C2 amended: the two votes restore both sets when the user did not hold
\* the opposite vote before the first; when the user did, the two votes
\* leave the user in neither set and every other membership unchanged.
VoteTwiceRestoresUnlessOpposite ==
    \A id \in DOMAIN tickets :
        SameVoteTwice(id) =>
            LET u == voteHist[id][1].user
            IN  IF HeldOpposite(id)
                THEN /\ Elems(tickets[id].upvotes) = voteHist[id][1].up \ {u}
                     /\ Elems(tickets[id].downvotes) = voteHist[id][1].down \ {u}
                ELSE /\ Elems(tickets[id].upvotes) = voteHist[id][1].up
                     /\ Elems(tickets[id].downvotes) = voteHist[id][1].down

\* A user holding an upvote beside another voter has voted up twice.
VotedUpTwice ==
    \E id \in DOMAIN tickets :
        /\ SameVoteTwice(id)
        /\ voteHist[id][1].voteType = "upvote"
        /\ voteHist[id][1].user \in voteHist[id][1].up
        /\ voteHist[id][1].up # {voteHist[id][1].user}
        /\ voteHist[id][1].down # {}

-----------------------------------------------------------------------------
(* Ticket update *)

\* C3: once resolvedAt (closedAt) of a ticket has a value, every later
\* state of the ticket has the same value for it.
StampsWriteOnce ==
    [][\A id \in DOMAIN tickets :
          id \in DOMAIN tickets' =>
              /\ tickets[id].resolvedAt # Unset =>
                     tickets'[id].resolvedAt = tickets[id].resolvedAt
              /\ tickets[id].closedAt # Unset =>
                     tickets'[id].closedAt = tickets[id].closedAt]_vars

\* A ticket resolved, then closed, then resolved again: its status is
\* resolved and closedAt is later than resolvedAt.
ResolvedAgain ==
    \E id \in DOMAIN tickets :
        /\ tickets[id].status = "resolved"
        /\ tickets[id].resolvedAt # Unset
        /\ tickets[id].closedAt > tickets[id].resolvedAt

\* The step is PUT /api/tickets/:id by u on the existing ticket id with a
\* body that passes the validators and casts.
UpdateStep(u, id) ==
    /\ last'.op = "updateTicket"
    /\ last'.user = u
    /\ last'.id = id
    /\ Authenticated(u)
    /\ id \in DOMAIN tickets
    /\ ValidUpdate(last'.req)
    /\ last'.req.category = Absent \/ IsMongoId(last'.req.category)

\* C5: an update by the ticket's assignee (of any role), by an agent or by
\* an admin applies the status, priority and assignedTo it supplies.
AssigneeWritesWorkflow ==
    [][\A u \in UserIds, id \in TicketIds :
          (/\ UpdateStep(u, id)
           /\ \/ tickets[id].assignedTo = u
              \/ RoleOf(u) \in {"agent", "admin"})
          => /\ last'.code = 200
             /\ last'.req.status # Absent => tickets'[id].status = last'.req.status
             /\ last'.req.priority # Absent => tickets'[id].priority = last'.req.priority
             /\ last'.req.assignedTo # Absent =>
                    tickets'[id].assignedTo = last'.req.assignedTo]_vars

\* C6: an update by a requester of role user who owns the ticket and is not
\* its assignee, carrying workflow fields and subject or description,
\* succeeds, leaves status, priority, assignedTo, resolvedAt and closedAt
\* unchanged and applies the subject and description it supplies.
OwnerWritesBasicOnly ==
    [][\A u \in UserIds, id \in TicketIds :
          (/\ UpdateStep(u, id)
           /\ RoleOf(u) = "user"
           /\ tickets[id].createdBy = u
           /\ tickets[id].assignedTo # u
           /\ \/ last'.req.status # Absent
              \/ last'.req.priority # Absent
              \/ last'.req.assignedTo # Absent
           /\ \/ last'.req.subject # Absent
              \/ last'.req.description # Absent)
          => /\ last'.code = 200
             /\ tickets'[id].status = tickets[id].status
             /\ tickets'[id].priority = tickets[id].priority
             /\ tickets'[id].assignedTo = tickets[id].assignedTo
             /\ tickets'[id].resolvedAt = tickets[id].resolvedAt
             /\ tickets'[id].closedAt = tickets[id].closedAt
             /\ last'.req.subject # Absent => tickets'[id].subject = last'.req.subject
             /\ last'.req.description # Absent =>
                    tickets'[id].description = last'.req.description]_vars

\* The owner, of role user and not the assignee, has sent a status that the
\* ticket does not have together with a subject that it now has.
OwnerStatusIgnored ==
    /\ last.op = "updateTicket"
    /\ last.code = 200
    /\ RoleOf(last.user) = "user"
    /\ tickets[last.id].createdBy = last.user
    /\ tickets[last.id].assignedTo # last.user
    /\ last.req.status \in Statuses
    /\ last.req.status # tickets[last.id].status
    /\ last.req.priority # Absent
    /\ last.req.subject # Absent
    /\ tickets[last.id].subject = last.req.subject

\* C7: every requester with read access to the ticket can overwrite its
\* subject, description and category; a requester without read access is
\* rejected with an authorization error and the ticket does not change.
ReadersWriteBasic ==
    [][\A u \in UserIds, id \in TicketIds :
          UpdateStep(u, id)
          => IF CanAccessTicket(u, tickets[id])
             THEN /\ last'.code = 200
                  /\ last'.req.subject # Absent => tickets'[id].subject = last'.req.subject
                  /\ last'.req.description # Absent =>
                         tickets'[id].description = last'.req.description
                  /\ last'.req.category # Absent =>
                         tickets'[id].category = last'.req.category
             ELSE /\ last'.code = 403
                  /\ tickets' = tickets]_vars

-----------------------------------------------------------------------------
(* Listing *)

\* C4: every ticket that list tickets returns to a requester of role user,
\* under every combination of the filters, was created by the requester.
UserListsOwnTickets ==
    (last.op = "listTickets" /\ last.code = 200 /\ RoleOf(last.user) = "user")
    => \A id \in last.res.tickets : tickets[id].createdBy = last.user

-----------------------------------------------------------------------------
(* Commenting *)

\* The step is POST /api/tickets/:id/comments by u on the existing ticket id
\* with a body that passes the validators.
CommentStep(u, id) ==
    /\ last'.op = "addComment"
    /\ last'.user = u
    /\ last'.id = id
    /\ Authenticated(u)
    /\ id \in DOMAIN tickets
    /\ ValidComment(last'.req)

\* Every internal comment was written by an agent or an admin.
InternalByStaff ==
    \A id \in DOMAIN tickets : \A i \in 1..Len(tickets[id].comments) :
        tickets[id].comments[i].isInternal
        => tickets[id].comments[i].roleAtWrite \in {"agent", "admin"}

\* C8: add comment with the internal flag set is rejected with an
\* authorization error and no change when the requester is no agent or
\* admin; by an agent or admin it succeeds and appends a comment with
\* isInternal = true; so every internal comment was written by a user who
\* was agent or admin at the time.
InternalCommentsRestricted ==
    [][/\ \A u \in UserIds, id \in TicketIds :
             (CommentStep(u, id) /\ last'.req.isInternal = "true")
             => IF RoleOf(u) \in {"agent", "admin"}
                THEN /\ last'.code = 200
                     /\ Len(tickets'[id].comments) = Len(tickets[id].comments) + 1
                     /\ SubSeq(tickets'[id].comments, 1, Len(tickets[id].comments))
                            = tickets[id].comments
                     /\ tickets'[id].comments[Len(tickets'[id].comments)].isInternal
                     /\ tickets'[id].comments[Len(tickets'[id].comments)].author = u
                ELSE /\ last'.code = 403
                     /\ tickets' = tickets
       /\ InternalByStaff']_vars

\* The owner, of role user, has just been refused an internal comment on a
\* ticket that holds an agent's internal comment.
InternalRefused ==
    /\ last.op = "addComment"
    /\ last.code = 403
    /\ last.msg = "Not authorized to add internal comments"
    /\ RoleOf(last.user) = "user"
    /\ \E i \in 1..Len(tickets[last.id].comments) :
           /\ tickets[last.id].comments[i].isInternal
           /\ tickets[last.id].comments[i].author = "agent"

-----------------------------------------------------------------------------
(* Categories *)

FoldCase(name) == [i \in 1..Len(name) |-> Lower(name[i])]

\* No two distinct categories have names equal ignoring case.
NamesUnique ==
    \A c, d \in DOMAIN categories :
        c # d => FoldCase(categories[c].name) # FoldCase(categories[d].name)

\* A category other than `except` has a name equal to name ignoring case.
NameClashes(name, except) ==
    \E c \in DOMAIN categories \ {except} :
        FoldCase(categories[c].name) = FoldCase(name)

\* C9: no two distinct categories have names equal ignoring case, and a
\* create or a renaming update by an admin whose name equals another
\* category's name ignoring case is rejected and changes nothing.
CategoryNamesUnique ==
    [][/\ NamesUnique'
       /\ \A id \in CategoryIds :
             (/\ last'.op = "createCategory"
              /\ last'.id = id
              /\ Authenticated(last'.user)
              /\ RoleOf(last'.user) = "admin"
              /\ ValidCategoryName(last'.req.name)
              /\ NameClashes(last'.req.name, id))
             => (last'.code >= 400 /\ categories' = categories)
       /\ \A id \in DOMAIN categories :
             (/\ last'.op = "updateCategory"
              /\ last'.id = id
              /\ Authenticated(last'.user)
              /\ RoleOf(last'.user) = "admin"
              /\ ValidCategoryUpdate(last'.req)
              /\ last'.req.name # NoName
              /\ last'.req.name # categories[id].name
              /\ NameClashes(last'.req.name, id))
             => (last'.code >= 400 /\ categories' = categories)]_vars

\* C10: delete category by an admin on an existing category fails with a
\* conflict error and leaves the category in the store if and only if a
\* ticket has that category id; when none has, the category is removed.
DeleteGuardedByReferences ==
    [][\A id \in DOMAIN categories :
          (/\ last'.op = "deleteCategory"
           /\ last'.id = id
           /\ Authenticated(last'.user)
           /\ RoleOf(last'.user) = "admin")
          => LET used == \E t \in DOMAIN tickets : tickets[t].category = id
                 conflict ==
                     /\ last'.code = 400
                     /\ last'.msg = "Cannot delete category that is being used by tickets"
             IN  /\ (conflict /\ id \in DOMAIN categories') <=> used
                 /\ used => categories' = categories
                 /\ ~used => (last'.code = 200 /\ id \notin DOMAIN categories')]_vars

\* An admin's delete of a category that a ticket is filed under has just
\* been refused, after an unused category was deleted.
DeleteRefused ==
    /\ last.op = "deleteCategory"
    /\ last.code = 400
    /\ RoleOf(last.user) = "admin"
    /\ last.id \in DOMAIN categories
    /\ \E t \in DOMAIN tickets : tickets[t].category = last.id
    /\ \E c \in allocated \cap CategoryIds : c \notin DOMAIN categories

-----------------------------------------------------------------------------
(* Accounts *)

\* C11: delete user is rejected with no change when the target has created
\* a ticket or is the requester; update user on the requester's own id with
\* isActive false is rejected with no change; and no delete or update user
\* call that an admin issues on their own id leaves that admin's account
\* deleted or inactive.
AdminKeepsOwnAccount ==
    [][\A u \in UserIds :
          /\ (/\ last'.op = "deleteUser"
              /\ last'.user = u
              /\ last'.id \in DOMAIN users
              /\ TicketsCreatedBy(last'.id) \/ last'.id = u)
             => (last'.code >= 400 /\ users' = users)
          /\ (/\ last'.op = "updateUser"
              /\ last'.user = u
              /\ last'.id = u
              /\ last'.req.isActive = "false")
             => (last'.code >= 400 /\ users' = users)
          /\ (/\ last'.op \in {"updateUser", "deleteUser"}
              /\ last'.user = u
              /\ last'.id = u
              /\ Authenticated(u)
              /\ RoleOf(u) = "admin")
             => (u \in DOMAIN users' /\ users'[u].isActive)]_vars

-----------------------------------------------------------------------------
(* Access *)

\* The requester is the ticket's creator or assignee, or an admin or agent.
ReadPredicate(u, id) ==
    \/ tickets[id].createdBy = u
    \/ tickets[id].assignedTo = u
    \/ users[u].role = "admin"
    \/ users[u].role = "agent"

-----------------------------------------------------------------------------
(* Stamping *)

\* C13: an update that changes the status to resolved while resolvedAt is
\* unset sets resolvedAt to the time of the save; one that changes it to
\* closed while closedAt is unset sets closedAt, whether or not resolvedAt
\* is set; an update that changes the status to open or in-progress, or
\* leaves the status as it is (a priority change), sets neither timestamp.
FirstEntryStamps ==
    [][\A id \in DOMAIN tickets :
          (last'.op = "updateTicket" /\ last'.id = id /\ last'.code = 200)
          => LET old == tickets[id]
                 new == tickets'[id]
             IN  /\ (/\ new.status = "resolved"
                     /\ old.status # "resolved"
                     /\ old.resolvedAt = Unset)
                    => /\ new.resolvedAt = clock
                       /\ new.resolvedAt # Unset
                       /\ new.closedAt = old.closedAt
                 /\ (/\ new.status = "closed"
                     /\ old.status # "closed"
                     /\ old.closedAt = Unset)
                    => /\ new.closedAt = clock
                       /\ new.closedAt # Unset
                       /\ new.resolvedAt = old.resolvedAt
                 /\ (new.status \in {"open", "in-progress"} \/ new.status = old.status)
                    => /\ new.resolvedAt = old.resolvedAt
                       /\ new.closedAt = old.closedAt]_vars

\* An update has just closed, and changed the priority of, a ticket that
\* was never resolved: closedAt is set and resolvedAt is not.
ClosedNeverResolved ==
    /\ last.op = "updateTicket"
    /\ last.code = 200
    /\ last.req.status = "closed"
    /\ last.req.priority # Absent
    /\ tickets[last.id].status = "closed"
    /\ tickets[last.id].closedAt = clock - 1
    /\ tickets[last.id].resolvedAt = Unset

-----------------------------------------------------------------------------
(* Vote switch *)

\* The step is a successful vote by u on ticket id in direction voteType.
VoteStep(u, id, voteType) ==
    /\ last'.op = "vote"
    /\ last'.user = u
    /\ last'.id = id
    /\ last'.req = voteType
    /\ last'.code = 200
    /\ id \in DOMAIN tickets

\* C14: a vote down by a user holding an upvote leaves the user in the
\* downvoters and not in the upvoters, and symmetrically for a vote up by a
\* user holding a downvote; every other user's membership in both sets is
\* unchanged, and the returned score is |upvoters| - |downvoters| of the
\* resulting ticket.
VoteSwitchMoves ==
    [][\A u \in UserIds, id \in TicketIds :
          LET up    == Elems(tickets[id].upvotes)
              down  == Elems(tickets[id].downvotes)
              up2   == Elems(tickets'[id].upvotes)
              down2 == Elems(tickets'[id].downvotes)
              score == Cardinality(up2) - Cardinality(down2)
          IN  /\ (VoteStep(u, id, "downvote") /\ u \in up)
                 => /\ u \in down2
                    /\ u \notin up2
                    /\ up2 \ {u} = up \ {u}
                    /\ down2 \ {u} = down \ {u}
                    /\ last'.res.voteCount = score
                    /\ last'.res.upvotes = Cardinality(up2)
                    /\ last'.res.downvotes = Cardinality(down2)
              /\ (VoteStep(u, id, "upvote") /\ u \in down)
                 => /\ u \in up2
                    /\ u \notin down2
                    /\ up2 \ {u} = up \ {u}
                    /\ down2 \ {u} = down \ {u}
                    /\ last'.res.voteCount = score
                    /\ last'.res.upvotes = Cardinality(up2)
                    /\ last'.res.downvotes = Cardinality(down2)]_vars

\* A user who held a downvote beside two other voters has just voted up,
\* and the returned score is negative.
SwitchedUp ==
    /\ last.op = "vote"
    /\ last.code = 200
    /\ last.req = "upvote"
    /\ Len(voteHist[last.id]) >= 1
    /\ LET h == voteHist[last.id][Len(voteHist[last.id])]
       IN  /\ h.user = last.user
           /\ h.voteType = "upvote"
           /\ last.user \in h.down
           /\ Cardinality(h.down) = 3
    /\ last.res.voteCount = -1

-----------------------------------------------------------------------------
(* Who may vote *)

\* C19: a vote up or down by an authenticated active user of any role on an
\* existing ticket succeeds and applies the toggle (a vote held in that
\* direction is removed, otherwise the user is added to that direction's
\* set), whatever the user's relationship to the ticket.
AnyoneVotes ==
    [][\A u \in UserIds, id \in TicketIds :
          (/\ last'.op = "vote"
           /\ last'.user = u
           /\ last'.id = id
           /\ last'.req \in {"upvote", "downvote"}
           /\ u \in DOMAIN users
           /\ users[u].isActive
           /\ id \in DOMAIN tickets)
          => LET requested(t) == IF last'.req = "upvote"
                                 THEN Elems(t.upvotes) ELSE Elems(t.downvotes)
             IN  /\ last'.code = 200
                 /\ u \in requested(tickets'[id]) <=> u \notin requested(tickets[id])]_vars

\* A requester of role user who is neither the creator nor the assignee of
\* the ticket has just voted on it, and the creator holds a vote on it too.
StrangerVoted ==
    /\ last.op = "vote"
    /\ last.code = 200
    /\ users[last.user].role = "user"
    /\ tickets[last.id].createdBy # last.user
    /\ tickets[last.id].assignedTo # last.user
    /\ last.user \in Elems(tickets[last.id].upvotes)
    /\ tickets[last.id].createdBy \in Elems(tickets[last.id].downvotes)

-----------------------------------------------------------------------------
(* Deactivated accounts *)

\* C16: a request of a user whose isActive is false is rejected at
\* authentication (401) and changes nothing; so from the deactivation of a
\* user until the reactivation no vote, comment, create or update by that
\* user succeeds.
DeactivatedCannotAct ==
    [][\A u \in UserIds :
          (/\ last'.user = u
           /\ u \in DOMAIN users
           /\ ~users[u].isActive)
          => /\ last'.code = 401
             /\ UNCHANGED <<users, categories, tickets, allocated>>]_vars

\* The creator of a ticket, deactivated by the admin, has just been refused
\* a vote on it; the vote cast while active is still there.
DeactivatedRefused ==
    /\ last.op = "vote"
    /\ last.code = 401
    /\ last.user \in DOMAIN users
    /\ ~users[last.user].isActive
    /\ last.id \in DOMAIN tickets
    /\ tickets[last.id].createdBy = last.user
    /\ last.user \in Elems(tickets[last.id].upvotes)

-----------------------------------------------------------------------------
(* Rejections *)

\* C15: every ticket, category or user operation that ends in a
\* validation, authorization, not-found or conflict rejection (400, 403,
\* 404) leaves the ticket, category and user stores as they were.
RejectionsChangeNothing ==
    [][last'.code \in {400, 403, 404}
       => UNCHANGED <<users, categories, tickets>>]_vars

\* The admin's delete of a user who has created a ticket has just been
\* refused, and the user is still in the store.
DeleteUserRefused ==
    /\ last.op = "deleteUser"
    /\ last.code = 400
    /\ last.id # last.user
    /\ last.id \in DOMAIN users
    /\ \E t \in DOMAIN tickets : tickets[t].createdBy = last.id

-----------------------------------------------------------------------------
(* The ticket's owner *)

\* C17: no operation changes an existing ticket's createdBy, and a new
\* ticket's createdBy is the requester of the create ticket call; so in
\* every later state of the ticket it equals that requester.
OwnerImmutable ==
    [][/\ \A id \in DOMAIN tickets \cap DOMAIN tickets' :
             tickets'[id].createdBy = tickets[id].createdBy
       /\ \A id \in DOMAIN tickets' \ DOMAIN tickets :
             /\ last'.op = "createTicket"
             /\ last'.code = 201
             /\ last'.id = id
             /\ tickets'[id].createdBy = last'.user]_vars

\* A ticket of user2 has been edited and commented on twice by user2 and
\* voted on by another user, and user2 is still its creator.
OwnerKept ==
    \E id \in DOMAIN tickets :
        /\ tickets[id].createdBy = "user2"
        /\ tickets[id].subject = "Printer on fire"
        /\ Len(tickets[id].comments) = 2
        /\ Elems(tickets[id].upvotes) = {"user"}

-----------------------------------------------------------------------------
(* Ticket removal *)

\* C18: a ticket leaves the store only by a delete ticket of a requester
\* with role admin; delete ticket by a user or an agent is rejected and the
\* ticket remains.
TicketsRemovedByAdmin ==
    [][\A id \in DOMAIN tickets :
          /\ id \notin DOMAIN tickets'
             => /\ last'.op = "deleteTicket"
                /\ last'.id = id
                /\ last'.code = 200
                /\ last'.user \in DOMAIN users
                /\ users[last'.user].role = "admin"
          /\ (/\ last'.op = "deleteTicket"
              /\ last'.id = id
              /\ last'.user \in DOMAIN users
              /\ users[last'.user].role \in {"user", "agent"})
             => /\ last'.code = 403
                /\ tickets' = tickets]_vars

\* An agent's delete of a ticket that holds a comment has just been
\* refused, and the ticket is still in the store.
DeleteTicketRefused ==
    /\ last.op = "deleteTicket"
    /\ last.code = 403
    /\ users[last.user].role = "agent"
    /\ last.id \in DOMAIN tickets
    /\ Len(tickets[last.id].comments) > 0

-----------------------------------------------------------------------------
(* Comments *)

\* C20: a successful add comment appends exactly one comment, with the
\* requester as author, at the end of the ticket's comments; every other operation on the ticket leaves the
\* comments as they are; so the earlier comment sequence is always a prefix
\* of the later one.
CommentsAppendOnly ==
    [][\A id \in DOMAIN tickets \cap DOMAIN tickets' :
          LET old   == tickets[id].comments
              new   == tickets'[id].comments
              added == last'.op = "addComment" /\ last'.id = id /\ last'.code = 200
          IN  /\ Len(new) >= Len(old)
              /\ SubSeq(new, 1, Len(old)) = old
              /\ added => /\ Len(new) = Len(old) + 1
                          /\ new[Len(new)].author = last'.user
              /\ ~added => new = old]_vars

\* A ticket holding two comments of different content has just been
\* edited, and the comments are in the order they were written.
CommentsKeptInOrder ==
    /\ last.op = "updateTicket"
    /\ last.code = 200
    /\ last.id \in DOMAIN tickets
    /\ Len(tickets[last.id].comments) = 2
    /\ tickets[last.id].comments[1].content = "Thanks"
    /\ tickets[last.id].comments[2].content = "Again"
    /\ tickets[last.id].upvotes # <<>>

-----------------------------------------------------------------------------
(* Votes in flight *)

\* How often x occurs in arr.
Occurrences(arr, x) == Cardinality({i \in 1..Len(arr) : arr[i] = x})

\* C21: when two vote requests of one user on one ticket both load the
\* ticket before either saves, the ticket still has the user in at most one
\* of upvoters and downvoters and at most once in either.
VotesDisjointInFlight ==
    \A id \in DOMAIN tickets, u \in UserIds :
        Occurrences(tickets[id].upvotes, u) + Occurrences(tickets[id].downvotes, u) <= 1

-----------------------------------------------------------------------------
(* References *)

\* C22: in every reachable state every ticket's category is the id of a
\* category in the category store, across create ticket, update ticket and
\* delete category, also when a create ticket and a delete category run
\* between each other's check and write.
TicketCategoryExists ==
    \A t \in DOMAIN tickets : tickets[t].category \in DOMAIN categories

-----------------------------------------------------------------------------
(* Status and timestamps *)

\* C23: in every state reached from ticket creation by update ticket
\* operations, a resolved ticket has resolvedAt set and a closed ticket has
\* closedAt set; and resolvedAt (closedAt) becomes set only in a step that
\* leaves the ticket resolved (closed), so it is set only if the ticket has
\* been resolved (closed) in that or an earlier state.
StatusImpliesStamp ==
    /\ [](\A id \in DOMAIN tickets :
             /\ tickets[id].status = "resolved" => tickets[id].resolvedAt # Unset
             /\ tickets[id].status = "closed" => tickets[id].closedAt # Unset)
    /\ [][\A id \in DOMAIN tickets' :
             LET wasResolvedAt == IF id \in DOMAIN tickets
                                  THEN tickets[id].resolvedAt ELSE Unset
                 wasClosedAt   == IF id \in DOMAIN tickets
                                  THEN tickets[id].closedAt ELSE Unset
             IN  /\ (tickets'[id].resolvedAt # Unset /\ wasResolvedAt = Unset)
                    => tickets'[id].status = "resolved"
                 /\ (tickets'[id].closedAt # Unset /\ wasClosedAt = Unset)
                    => tickets'[id].status = "closed"]_vars

\* A ticket closed, then resolved, then closed again: its status is closed
\* and resolvedAt is later than closedAt.
ClosedAgain ==
    \E id \in DOMAIN tickets :
        /\ tickets[id].status = "closed"
        /\ tickets[id].closedAt # Unset
        /\ tickets[id].resolvedAt > tickets[id].closedAt

-----------------------------------------------------------------------------
(* Administrators *)

\* C24: from a state with an active admin, every state reached through
\* update user and delete user operations has an active user of role admin.
AdminRemains ==
    \E u \in DOMAIN users : users[u].role = "admin" /\ users[u].isActive

-----------------------------------------------------------------------------
(* Updates in flight *)

\* C25: when update requests on one ticket are in flight together, a save
\* of an update leaves a resolvedAt (closedAt) that the store already holds
\* as it is: the value written by the first save is not replaced.
FirstStampKept ==
    [][\A s \in Slots :
          (/\ pending[s].kind = "updateTicket"
           /\ pending'[s] = Idle
           /\ last'.code = 200
           /\ pending[s].id \in DOMAIN tickets)
          => LET old == tickets[pending[s].id]
                 new == tickets'[pending[s].id]
             IN  /\ old.resolvedAt # Unset => new.resolvedAt = old.resolvedAt
                 /\ old.closedAt # Unset => new.closedAt = old.closedAt]_vars

-----------------------------------------------------------------------------
(* Categories in flight *)

\* C26: when create category and renaming update category requests are in
\* flight together, the store never holds two distinct categories whose
\* names are equal ignoring case.
NamesUniqueInFlight ==
    \A c \in DOMAIN categories :
        \A d \in DOMAIN categories \ {c} :
            FoldCase(categories[c].name) # FoldCase(categories[d].name)

-----------------------------------------------------------------------------
(* Users that tickets refer to *)

\* C27: every ticket's createdBy is the id of a user in the user store, and
\* every set assignedTo is the id of a user in the user store.
TicketUsersExist ==
    \A t \in DOMAIN tickets :
        /\ tickets[t].createdBy \in DOMAIN users
        /\ tickets[t].assignedTo # None => tickets[t].assignedTo \in DOMAIN users

-----------------------------------------------------------------------------
(* Assignment *)

\* C28: a ticket is created with no assignee; a ticket that has an assignee
\* has one in every later state; and the assignee changes only in an update
\* ticket call by an agent, an admin or the assignee of that moment.
AssignmentOneWay ==
    [][/\ \A id \in DOMAIN tickets' \ DOMAIN tickets :
             tickets'[id].assignedTo = None
       /\ \A id \in DOMAIN tickets \cap DOMAIN tickets' :
             /\ tickets[id].assignedTo # None => tickets'[id].assignedTo # None
             /\ tickets'[id].assignedTo # tickets[id].assignedTo
                => /\ last'.op = "updateTicket"
                   /\ last'.code = 200
                   /\ last'.id = id
                   /\ tickets'[id].assignedTo = last'.req.assignedTo
                   /\ \/ RoleOf(last'.user) \in {"agent", "admin"}
                      \/ last'.user = tickets[id].assignedTo]_vars

\* A ticket assigned to user2 has just been set in progress by an update
\* without assignedTo, and user2 is still its assignee.
StillAssigned ==
    /\ last.op = "updateTicket"
    /\ last.code = 200
    /\ last.req.assignedTo = Absent
    /\ last.id \in DOMAIN tickets
    /\ tickets[last.id].assignedTo = "user2"
    /\ tickets[last.id].status = "in-progress"

-----------------------------------------------------------------------------
(* The dashboard *)

\* C29: only an admin gets the dashboard, the dashboard changes no store,
\* and in its result the counts of open, in-progress, resolved and closed
\* tickets add up to the total, also when tickets are created, updated and
\* deleted while its queries run.
DashboardAddsUp ==
    /\ (last.op = "dashboard" /\ last.code = 200)
       => /\ RoleOf(last.user) = "admin"
          /\ LET t == last.res.tickets
             IN  t.open + t.inProgress + t.resolved + t.closed = t.total
    /\ \A s \in Slots :
          pending[s].kind = "dashboard" => RoleOf(pending[s].user) = "admin"

====
